---- MODULE Spec2Model ----
(***************************************************************************)
(* Model of the analysis core of the DML language server (python-port):    *)
(* FileManager (dependency graph), IsolatedAnalysis (per-file analysis)    *)
(* and DeviceAnalysis (analysis cache, global symbol table, invalidation). *)
(*                                                                         *)
(* A source text is represented by the sequence of its well-formed         *)
(* top-level declarations, one declaration per line; the parser turns the  *)
(* i-th declaration into an AST node whose span lies on line i-1.          *)
(* A path is the pair <<directory, file name>>.                            *)
(***************************************************************************)
EXTENDS Integers, Sequences, FiniteSets, TLC

\* ------------------------------------------------------------------------
\* Bounds
\* ------------------------------------------------------------------------
MaxSteps == 3
MaxDiskChanges == 1
MaxDecls == 3

\* ------------------------------------------------------------------------
\* Universe: paths, include directories, source texts
\* ------------------------------------------------------------------------
SrcA == <<"src", "a.dml">>
SrcB == <<"src", "b.dml">>
IncA == <<"inc", "a.dml">>
LibA == <<"lib", "a.dml">>
Paths == {SrcA, SrcB, IncA, LibA}
NoPath == <<"", "">>

Dml == [kind |-> "dml", name |-> "1.4", templates |-> <<>>, params |-> <<>>]
Import(n) == [kind |-> "import", name |-> n, templates |-> <<>>, params |-> <<>>]
Device(n, ts) == [kind |-> "device", name |-> n, templates |-> ts, params |-> <<>>]
Template(n, ps) == [kind |-> "template", name |-> n, templates |-> <<>>, params |-> ps]
Parameter(n) == [kind |-> "parameter", name |-> n, templates |-> <<>>, params |-> <<>>]

\* ------------------------------------------------------------------------
\* Generic helpers
\* ------------------------------------------------------------------------
EmptyMap == [x \in {} |-> {}]
Put(f, k, v) == [x \in (DOMAIN f) \cup {k} |-> IF x = k THEN v ELSE f[x]]
Drop(f, S) == [x \in (DOMAIN f) \ S |-> f[x]]
Get(f, k, default) == IF k \in DOMAIN f THEN f[k] ELSE default

RECURSIVE Concat(_)
Concat(ss) == IF ss = <<>> THEN <<>> ELSE Head(ss) \o Concat(Tail(ss))

SeqMap(Op(_), s) == [i \in 1..Len(s) |-> Op(s[i])]
SelectIdx(s, Test(_)) == {i \in 1..Len(s) : Test(i)}

\* ------------------------------------------------------------------------
\* Spans
\* ------------------------------------------------------------------------
Span(file, sl, sc, el, ec) == [file |-> file, sl |-> sl, sc |-> sc, el |-> el, ec |-> ec]
ZeroZeroSpan(file) == Span(file, 0, 0, 0, 0)

\* ------------------------------------------------------------------------
\* EnhancedDMLParser on a well-formed text
\* ------------------------------------------------------------------------
DeclWidth(d) == 2 + 2 * Len(d.params)
DeclSpan(file, i, d) == Span(file, i - 1, 0, i - 1, DeclWidth(d))
ParamSpan(file, i, j) == Span(file, i - 1, 2 * j - 1, i - 1, 2 * j)

AstNode(file, i, d) ==
  [kind |-> d.kind, name |-> d.name, templates |-> d.templates,
   params |-> [j \in 1..Len(d.params) |->
                 [name |-> d.params[j], span |-> ParamSpan(file, i, j)]],
   span |-> DeclSpan(file, i, d)]

parse(file, text) == [i \in 1..Len(text) |-> AstNode(file, i, text[i])]

Symbol(name, kind, span, origin) ==
  [name |-> name, kind |-> kind, span |-> span, origin |-> origin]

DMLError(kind, message, arg, span) ==
  [kind |-> kind, message |-> message, arg |-> arg, span |-> span]

\* the flat symbol list contributed by one declaration
extract_symbols_from_declaration(decl) ==
  CASE decl.kind = "device" ->
         <<Symbol(decl.name, "Device", decl.span, "")>>
    [] decl.kind = "template" ->
         <<Symbol(decl.name, "Template", decl.span, "")>>
         \o [j \in 1..Len(decl.params) |->
               Symbol(decl.params[j].name, "Parameter", decl.params[j].span, "")]
    \* DMLSymbolKind has no member MODULE: building the import symbol raises,
    \* the handler of the method logs it, and no symbol is appended
    [] decl.kind = "import" -> <<>>
    [] decl.kind = "dml" ->
         <<Symbol("dml", "Constant", decl.span, "")>>
    [] decl.kind = "parameter" ->
         <<Symbol(decl.name, "Parameter", decl.span, "")>>
    [] OTHER -> <<>>

get_symbols(ast) ==
  Concat([i \in 1..Len(ast) |-> extract_symbols_from_declaration(ast[i])])

RECURSIVE parser_imports(_)
parser_imports(ast) ==
  IF ast = <<>> THEN <<>>
  ELSE (IF Head(ast).kind = "import" THEN <<Head(ast).name>> ELSE <<>>)
       \o parser_imports(Tail(ast))

\* ------------------------------------------------------------------------
\* IsolatedAnalysis._validate_file_structure
\* ------------------------------------------------------------------------
VersionFirstMsg == "Version declaration must be first statement in file"
DeviceSecondMsg == "Device declaration must be second statement in file"

\* i is the zero-based index of the declaration, as in the source loop
RECURSIVE validate_from(_, _, _)
validate_from(ast, i, seen_dml_version) ==
  IF i >= Len(ast) THEN <<>>
  ELSE LET declaration == ast[i + 1] IN
    IF declaration.kind = "dml"
    THEN (IF i # 0
          THEN <<DMLError("semantic_error", VersionFirstMsg, "", declaration.span)>>
          ELSE <<>>)
         \o validate_from(ast, i + 1, TRUE)
    ELSE IF declaration.kind = "device"
    THEN (IF seen_dml_version /\ i # 1
          THEN <<DMLError("semantic_error", DeviceSecondMsg, "", declaration.span)>>
          ELSE <<>>)
         \o validate_from(ast, i + 1, seen_dml_version)
    ELSE validate_from(ast, i + 1, seen_dml_version)

validate_file_structure(ast) == validate_from(ast, 0, FALSE)

\* ------------------------------------------------------------------------
\* TemplateSystem as used by IsolatedAnalysis._process_ast_declarations
\* ------------------------------------------------------------------------
\* TemplateInheritanceResolver.add_template for every template declaration,
\* in file order: a later declaration of a name replaces the earlier one
RECURSIVE add_templates(_, _)
add_templates(ast, templates) ==
  IF ast = <<>> THEN templates
  ELSE add_templates(Tail(ast),
         IF Head(ast).kind = "template"
         THEN Put(templates, Head(ast).name, Head(ast))
         ELSE templates)

\* an insertion-ordered dict name -> value, kept as a sequence of entries
DictPut(dict, entry) ==
  IF \E k \in 1..Len(dict) : dict[k].name = entry.name
  THEN [k \in 1..Len(dict) |-> IF dict[k].name = entry.name THEN entry ELSE dict[k]]
  ELSE Append(dict, entry)

\* _resolve_parameters of a template without parents
RECURSIVE resolve_parameters(_, _, _)
resolve_parameters(template_name, params, resolved_params) ==
  IF params = <<>> THEN resolved_params
  ELSE resolve_parameters(template_name, Tail(params),
         DictPut(resolved_params,
                 [name |-> Head(params).name, span |-> Head(params).span,
                  source_template |-> template_name]))

\* resolve_template: None (here <<>>) for an unknown name, else a one-element
\* sequence holding the resolved template
resolve_template(templates, template_name) ==
  IF template_name \notin DOMAIN templates THEN <<>>
  ELSE <<[name |-> template_name,
          resolved_parameters |->
            resolve_parameters(template_name, templates[template_name].params, <<>>)]>>

\* errors the resolver records while the templates of one device are resolved
resolver_errors(templates, device) ==
  Concat([k \in 1..Len(device.templates) |->
            IF device.templates[k] \in DOMAIN templates THEN <<>>
            ELSE <<DMLError("template_error", "Template not found",
                            device.templates[k], ZeroZeroSpan(NoPath))>>])

\* errors the applicator records for one device
applicator_errors(templates, device) ==
  Concat([k \in 1..Len(device.templates) |->
            IF device.templates[k] \in DOMAIN templates THEN <<>>
            ELSE <<DMLError("template_error", "Cannot resolve template",
                            device.templates[k], device.span)>>])

\* apply_templates_to_device followed by get_template_symbols(device.name)
get_template_symbols(templates, device) ==
  LET applied == Concat([k \in 1..Len(device.templates) |->
                           resolve_template(templates, device.templates[k])])
  IN Concat([k \in 1..Len(applied) |->
               [j \in 1..Len(applied[k].resolved_parameters) |->
                  Symbol(applied[k].resolved_parameters[j].name, "Parameter",
                         applied[k].resolved_parameters[j].span, applied[k].name)]])

RECURSIVE devices_to_process(_)
devices_to_process(ast) ==
  IF ast = <<>> THEN <<>>
  ELSE (IF Head(ast).kind = "device" /\ Head(ast).templates # <<>>
        THEN <<Head(ast)>> ELSE <<>>)
       \o devices_to_process(Tail(ast))

\* symbols appended by the second pass of _process_ast_declarations
template_symbols_of(ast) ==
  LET templates == add_templates(ast, EmptyMap)
      devices == devices_to_process(ast)
  IN Concat([k \in 1..Len(devices) |-> get_template_symbols(templates, devices[k])])

\* TemplateSystem.get_all_errors
template_errors_of(ast) ==
  LET templates == add_templates(ast, EmptyMap)
      devices == devices_to_process(ast)
  IN Concat([k \in 1..Len(devices) |-> resolver_errors(templates, devices[k])])
     \o Concat([k \in 1..Len(devices) |-> applicator_errors(templates, devices[k])])

\* definitions registered for template symbols: first symbol of a name wins
RECURSIVE add_if_absent(_, _)
add_if_absent(symbols, symbol_definitions) ==
  IF symbols = <<>> THEN symbol_definitions
  ELSE add_if_absent(Tail(symbols),
         IF Head(symbols).name \in DOMAIN symbol_definitions
         THEN symbol_definitions
         ELSE Put(symbol_definitions, Head(symbols).name, Head(symbols)))

\* ------------------------------------------------------------------------
\* IsolatedAnalysis._parse: the symbol-table loop
\* ------------------------------------------------------------------------
\* state of the loop: the definitions so far and the errors appended so far
RECURSIVE build_symbol_table(_, _, _)
build_symbol_table(symbols, symbol_definitions, errors) ==
  IF symbols = <<>>
  THEN [symbol_definitions |-> symbol_definitions, errors |-> errors]
  ELSE LET symbol == Head(symbols) IN
    IF symbol.name \in DOMAIN symbol_definitions
    THEN build_symbol_table(Tail(symbols), symbol_definitions,
           Append(errors, DMLError("duplicate_symbol", "Duplicate symbol",
                                   symbol.name, symbol.span)))
    ELSE build_symbol_table(Tail(symbols),
           Put(symbol_definitions, symbol.name, symbol), errors)

\* IsolatedAnalysis(file_path, content): the analysis the constructor leaves
IsolatedAnalysis(file_path, content) ==
  LET ast == parse(file_path, content)
      template_symbols == template_symbols_of(ast)
      symbols == get_symbols(ast) \o template_symbols
      errors0 == validate_file_structure(ast) \o template_errors_of(ast)
      defs0 == add_if_absent(template_symbols, EmptyMap)
      table == build_symbol_table(symbols, defs0, errors0)
  IN [file_path |-> file_path,
      content |-> content,
      errors |-> table.errors,
      symbols |-> symbols,
      symbol_definitions |-> table.symbol_definitions,
      imports |-> parser_imports(ast)]

\* ------------------------------------------------------------------------
\* State
\* ------------------------------------------------------------------------
VARIABLES
  disk,                  \* files on disk: path -> text
  include_paths,         \* Config._include_paths
  compile_commands,      \* Config._compile_commands: sequence of entries
  file_cache,            \* FileManager._file_cache (its keys)
  dependency_graph,      \* FileManager._dependency_graph
  reverse_dependencies,  \* FileManager._reverse_dependencies
  file_analyses,         \* DeviceAnalysis.file_analyses
  global_symbol_table,   \* DeviceAnalysis.global_symbol_table
  last,                  \* the last operation, its arguments and what it returned
  steps,                 \* number of state-changing operations performed
  disk_changes,          \* number of changes made to the disk
  lint_engine,           \* DMLLanguageServer.lint_engine is set
  template_system,       \* a TemplateSystem: its resolver and its applicator
  object_resolver,       \* an ObjectResolver: its templates, cache and method registry
  analyze_call,          \* the analyze_file call a thread is in: its position and arguments
  lexer,                 \* a DMLLexer: its content, position, line, column and tokens
  parser,                \* an EnhancedDMLParser: its tokens, position, errors, ast and symbols
  root_scope,            \* the scopes of one IsolatedAnalysis in creation order, the file scope first
  vfs                    \* the VFS: its file cache, dirty files, change queue, and the disk it reads


vars == <<disk, include_paths, compile_commands, file_cache, dependency_graph,
          reverse_dependencies, file_analyses, global_symbol_table, last, steps,
          disk_changes,
          lint_engine,
          template_system,
          object_resolver,
          analyze_call,
          lexer,
          parser,
          root_scope,
          vfs>>

\* TemplateSystem.__init__: a resolver and an applicator that hold nothing
NewTemplateSystem ==
  [templates |-> EmptyMap,            \* resolver.templates
   resolved_templates |-> EmptyMap,   \* resolver.resolved_templates
   resolver_errors |-> <<>>,          \* resolver.errors
   applied_templates |-> EmptyMap,    \* applicator.applied_templates
   applicator_errors |-> <<>>]        \* applicator.errors

\* ObjectResolver.__init__: no template, nothing cached, an empty registry
NewObjectResolver ==
  [template_registry |-> EmptyMap,    \* template_registry
   object_cache |-> EmptyMap,         \* object_cache
   methods |-> <<>>,                  \* method_analyzer.method_registry.methods
   registry_errors |-> <<>>,          \* method_analyzer.method_registry.errors
   errors |-> <<>>]                   \* errors

\* no thread is inside analyze_file; analyzed: the files analyze_file was
\* called for
NoAnalyzeCall ==
  [pc |-> "idle", file_path |-> <<"", "">>, content |-> <<>>, analyzed |-> {}]

\* VFS.__init__: nothing cached, nothing dirty, no change queued; files is
\* what the file loader finds, a file that is not in it does not exist
NewVFS ==
  [file_cache |-> EmptyMap, dirty_files |-> {}, change_queue |-> <<>>,
   files |-> EmptyMap]

\* DMLLexer.__init__. content is a sequence of characters; iterations counts
\* the passes through the loop of tokenize, done is set when it has returned
DMLLexer(content) ==
  [content |-> content, position |-> 0, line |-> 0, column |-> 0,
   tokens |-> <<>>, iterations |-> 0, done |-> FALSE]

\* EnhancedDMLParser.__init__ on the tokens of a text. items: the
\* declarations the text was written from; recoveries: the position at
\* which each call of _error found the parser and the position at which it
\* left it; done is set when parse has returned
EnhancedDMLParser(items, tokens) ==
  [items |-> items, tokens |-> tokens, position |-> 0, errors |-> <<>>,
   ast |-> <<>>, symbols |-> <<>>, imports |-> <<>>, recoveries |-> <<>>,
   done |-> FALSE]

\* ------------------------------------------------------------------------
\* Paths and Config
\* ------------------------------------------------------------------------
parent(path) == path[1]
join(dir, name) == <<dir, name>>
exists(dsk, path) == path \in DOMAIN dsk

\* what a file holds when open() or read() on it raises (no permission, bytes
\* that are not UTF-8): the file exists and cannot be read
Unreadable == <<[kind |-> "unreadable", name |-> "", templates |-> <<>>, params |-> <<>>]>>
readable(dsk, path) == exists(dsk, path) /\ dsk[path] # Unreadable

\* Config._is_file_included_by_device: the file lies under the device's directory
is_file_included_by_device(file_path, device_path) ==
  parent(file_path) = parent(device_path)

RECURSIVE first_including_device(_, _)
first_including_device(commands, file_path) ==
  IF commands = <<>> THEN <<>>
  ELSE IF is_file_included_by_device(file_path, Head(commands).device)
       THEN <<Head(commands)>>
       ELSE first_including_device(Tail(commands), file_path)

\* Config.get_include_paths_for_file
get_include_paths_for_file(commands, includes, file_path) ==
  LET own == SelectSeq(commands, LAMBDA e : e.device = file_path)
      inc == first_including_device(commands, file_path)
  IN IF own # <<>> THEN own[1].includes \o includes
     ELSE IF inc # <<>> THEN inc[1].includes \o includes
     ELSE includes

\* ------------------------------------------------------------------------
\* FileManager
\* ------------------------------------------------------------------------
\* _extract_imports: the names of the import statements, in text order
RECURSIVE extract_imports(_)
extract_imports(content) ==
  IF content = <<>> THEN <<>>
  ELSE (IF Head(content).kind = "import" THEN <<Head(content).name>> ELSE <<>>)
       \o extract_imports(Tail(content))

RECURSIVE first_existing(_, _, _)
first_existing(dsk, dirs, import_name) ==
  IF dirs = <<>> THEN NoPath
  ELSE IF exists(dsk, join(Head(dirs), import_name))
       THEN join(Head(dirs), import_name)
       ELSE first_existing(dsk, Tail(dirs), import_name)

\* FileManager._resolve_import_path: NoPath stands for None
resolve_import_path(dsk, import_name, current_file, includes) ==
  IF exists(dsk, join(parent(current_file), import_name))
  THEN join(parent(current_file), import_name)
  ELSE first_existing(dsk, includes, import_name)

resolved_imports(dsk, commands, includes, file_path, imports) ==
  {resolve_import_path(dsk, imports[k], file_path,
                       get_include_paths_for_file(commands, includes, file_path))
     : k \in 1..Len(imports)} \ {NoPath}

\* FileManager._update_dependencies: the new reverse edges
updated_reverse(rev, file_path, resolved) ==
  [f \in (DOMAIN rev) \cup resolved |->
     IF f \in resolved THEN Get(rev, f, {}) \cup {file_path} ELSE rev[f]]

get_dependencies(fwd, file_path) == Get(fwd, file_path, {})
get_dependents(rev, file_path) == Get(rev, file_path, {})

\* FileManager.get_all_dependents
RECURSIVE get_all_dependents(_, _, _)
get_all_dependents(rev, file_path, visited) ==
  IF file_path \in visited THEN {}
  ELSE LET direct_dependents == get_dependents(rev, file_path)
       IN direct_dependents
          \cup UNION {get_all_dependents(rev, dependent, visited \cup {file_path})
                        : dependent \in direct_dependents}

\* ------------------------------------------------------------------------
\* DeviceAnalysis
\* ------------------------------------------------------------------------
\* _analyze_dependencies; the loop over the dependency set takes the files in
\* some order, and the cache it leaves does not depend on that order
RECURSIVE analyze_dependencies(_, _, _, _)
RECURSIVE analyze_dependency_loop(_, _, _, _)
analyze_dependency_loop(dsk, fwd, analyses, todo) ==
  IF todo = {} THEN analyses
  ELSE LET dep_path == CHOOSE d \in todo : TRUE
           rest == todo \ {dep_path}
       IN IF dep_path \in DOMAIN analyses
          THEN analyze_dependency_loop(dsk, fwd, analyses, rest)
          ELSE IF ~readable(dsk, dep_path)
          THEN analyze_dependency_loop(dsk, fwd, analyses, rest)
          ELSE analyze_dependency_loop(dsk, fwd,
                 analyze_dependencies(dsk, fwd,
                   Put(analyses, dep_path, IsolatedAnalysis(dep_path, dsk[dep_path])),
                   dep_path),
                 rest)

analyze_dependencies(dsk, fwd, analyses, file_path) ==
  analyze_dependency_loop(dsk, fwd, analyses, get_dependencies(fwd, file_path))

\* _build_global_symbol_table: name -> the definitions of the name, one per
\* analysis that defines it (the order of the list is not modelled)
build_global_symbol_table(analyses) ==
  [name \in UNION {DOMAIN analyses[f].symbol_definitions : f \in DOMAIN analyses} |->
     {analyses[f].symbol_definitions[name] :
        f \in {g \in DOMAIN analyses : name \in DOMAIN analyses[g].symbol_definitions}}]

\* DeviceAnalysis._resolve_import
resolve_import(dsk, commands, includes, file_path, import_name) ==
  \/ first_existing(dsk, get_include_paths_for_file(commands, includes, file_path),
                    import_name) # NoPath
  \/ exists(dsk, join(parent(file_path), import_name))

\* the ImportErrors _analyze_cross_file_references appends
import_errors(dsk, commands, includes, file_path, imports) ==
  Concat([k \in 1..Len(imports) |->
            IF resolve_import(dsk, commands, includes, file_path, imports[k])
            THEN <<>>
            ELSE <<DMLError("import_error", "Cannot resolve import", imports[k],
                            ZeroZeroSpan(file_path))>>])

\* the analyses invalidate_file leaves in the cache
pop_everything(analyses, affected_files) == EmptyMap
pop_nothing(analyses, affected_files) == analyses
pop_affected(analyses, affected_files) == Drop(analyses, affected_files)

\* DeviceAnalysis.invalidate_file: the set it returns
affected_direct_only(rev, file_path) == get_dependents(rev, file_path) \cup {file_path}
affected_files_of(rev, file_path) ==
  get_all_dependents(rev, file_path, {}) \cup {file_path}

get_all_symbols_in_file(analyses, file_path) ==
  IF file_path \in DOMAIN analyses THEN analyses[file_path].symbols ELSE <<>>

find_symbol_definitions(table, symbol_name) == Get(table, symbol_name, {})

get_diagnostics_for_file(analyses, file_path) ==
  IF file_path \in DOMAIN analyses THEN analyses[file_path].errors ELSE <<>>

\* ------------------------------------------------------------------------
\* Inputs
\* ------------------------------------------------------------------------
TxtImportsB == <<Dml, Device("d", <<>>), Import("b.dml")>>
TxtImportsA == <<Dml, Import("a.dml")>>
TxtLibrary == <<Dml, Template("t", <<"x">>)>>
TxtImportsC == <<Dml, Device("d", <<>>), Import("c.dml")>>
MainTexts == {TxtImportsB, TxtLibrary, TxtImportsC}
DiskTexts == {TxtImportsA, TxtLibrary, Unreadable}

InitialDisk ==
  [p \in Paths |->
     CASE p = SrcA -> TxtImportsB
       [] p = SrcB -> TxtImportsA
       [] p = IncA -> TxtLibrary
       [] OTHER -> TxtImportsB]

\* configurations: no include path; two global include paths; include paths
\* that reach back into src; compile commands for the device src/b.dml
ConfigChoices ==
  {[includes |-> <<>>, commands |-> <<>>],
   [includes |-> <<"lib", "inc">>, commands |-> <<>>],
   [includes |-> <<"inc", "src">>, commands |-> <<>>],
   [includes |-> <<"inc">>,
    commands |-> <<[device |-> SrcB, includes |-> <<"lib">>]>>]}
QueryNames == {"dml", "d", "t"}

DeclAlphabet ==
  {Dml, Import("b.dml"), Import("c.dml"), Device("d", <<>>), Device("d", <<"t">>),
   Template("t", <<>>), Template("t", <<"x">>), Template("t", <<"x", "x">>),
   Parameter("x")}
GeneratedTexts == UNION {[1..n -> DeclAlphabet] : n \in 1..MaxDecls}

\* ------------------------------------------------------------------------
\* Operations
\* ------------------------------------------------------------------------
Op(name, file) ==
  [op |-> name, file |-> file, name |-> "", files |-> {}, symbols |-> <<>>,
   defs |-> {}, errors |-> <<>>, ran |-> {}, dropped |-> {}, again |-> FALSE,
   published |-> <<>>]

Init ==
  /\ disk = InitialDisk
  /\ \E c \in ConfigChoices : /\ include_paths = c.includes
                              /\ compile_commands = c.commands
  /\ file_cache = {}
  /\ dependency_graph = EmptyMap
  /\ reverse_dependencies = EmptyMap
  /\ file_analyses = EmptyMap
  /\ global_symbol_table = EmptyMap
  /\ last = Op("init", NoPath)
  /\ steps = 0
  /\ disk_changes = 0
  /\ vfs = NewVFS
  /\ root_scope = <<>>
  /\ parser = EnhancedDMLParser(<<>>, <<>>)
  /\ lexer = DMLLexer(<<>>)
  /\ analyze_call = NoAnalyzeCall
  /\ object_resolver = NewObjectResolver
  /\ template_system = NewTemplateSystem
  /\ lint_engine = FALSE

\* FileManager.get_file_info
FMGetFileInfo(file_path) ==
  /\ steps < MaxSteps
  /\ steps' = steps + 1
  /\ last' = Op("get_file_info", file_path)
  /\ IF file_path \in file_cache \/ ~readable(disk, file_path)
     THEN UNCHANGED <<file_cache, dependency_graph, reverse_dependencies>>
     ELSE LET resolved == resolved_imports(disk, compile_commands, include_paths,
                                           file_path, extract_imports(disk[file_path]))
          IN /\ dependency_graph' = Put(dependency_graph, file_path, resolved)
             /\ reverse_dependencies' =
                  updated_reverse(reverse_dependencies, file_path, resolved)
             /\ file_cache' = file_cache \cup {file_path}
  /\ UNCHANGED <<vfs, root_scope, parser, lexer, analyze_call, object_resolver, template_system, lint_engine, disk, include_paths, compile_commands, file_analyses,
                 global_symbol_table,
                 disk_changes>>

\* FileManager.invalidate_file
FMInvalidateFile(file_path) ==
  /\ steps < MaxSteps
  /\ steps' = steps + 1
  /\ last' = [Op("fm_invalidate_file", file_path) EXCEPT
                !.files = {file_path}
                          \cup get_all_dependents(reverse_dependencies, file_path, {})]
  /\ file_cache' = file_cache \ {file_path}
  /\ dependency_graph' = Drop(dependency_graph, {file_path})
  /\ reverse_dependencies' =
       [f \in (DOMAIN reverse_dependencies) \ {file_path} |->
          reverse_dependencies[f] \ {file_path}]
  /\ UNCHANGED <<vfs, root_scope, parser, lexer, analyze_call, object_resolver, template_system, lint_engine, disk, include_paths, compile_commands, file_analyses,
                 global_symbol_table,
                 disk_changes>>

\* FileManager.clear_cache
FMClearCache ==
  /\ steps < MaxSteps
  /\ steps' = steps + 1
  /\ last' = Op("fm_clear_cache", NoPath)
  /\ file_cache' = {}
  /\ dependency_graph' = EmptyMap
  /\ reverse_dependencies' = EmptyMap
  /\ UNCHANGED <<vfs, root_scope, parser, lexer, analyze_call, object_resolver, template_system, lint_engine, disk, include_paths, compile_commands, file_analyses,
                 global_symbol_table,
                 disk_changes>>

\* self.file_analyses[file_path] = analysis
store_analysis_keeping_errors(analyses, file_path, analysis) ==
  Put(analyses, file_path,
      IF file_path \in DOMAIN analyses
      THEN [analysis EXCEPT !.errors = analyses[file_path].errors \o analysis.errors]
      ELSE analysis)
store_analysis(analyses, file_path, analysis) == Put(analyses, file_path, analysis)

\* DeviceAnalysis.analyze_file: the cache and the table it leaves, the list it
\* returns (the errors list of the stored analysis itself) and the files it
\* analyzed
analyze_file(file_path, content) ==
  LET analysis == IsolatedAnalysis(file_path, content)
      with_file == store_analysis(file_analyses, file_path, analysis)
      with_deps == analyze_dependencies(disk, dependency_graph, with_file, file_path)
      stored == with_deps[file_path]
      errors == stored.errors
                \o import_errors(disk, compile_commands, include_paths,
                                 file_path, stored.imports)
  IN [file_analyses |-> Put(with_deps, file_path, [stored EXCEPT !.errors = errors]),
      global_symbol_table |-> build_global_symbol_table(with_deps),
      errors |-> errors,
      ran |-> {file_path} \cup ((DOMAIN with_deps) \ (DOMAIN with_file))]

\* NamingConventionRule._is_pascal_case: of the names of the model only "D"
\* starts with an upper-case letter
is_pascal_case(name) == name \in {"D"}

\* NamingConventionRule.check: the model has no method symbols
NamingConventionRule(analysis) ==
  Concat([k \in 1..Len(analysis.symbols) |->
            IF analysis.symbols[k].kind = "Device"
               /\ ~is_pascal_case(analysis.symbols[k].name)
            THEN <<DMLError("semantic_error", "Device names should use PascalCase",
                            analysis.symbols[k].name, analysis.symbols[k].span)>>
            ELSE <<>>])

\* LintEngine.lint_file with the default rules: IndentationRule and SpacingRule
\* find nothing in a text that has one declaration per line, no indentation
\* and single spaces
lint_file(file_path, content, analysis) == NamingConventionRule(analysis)

\* errors.extend(lint_warnings): errors is the list analyze_file returned, the
\* errors list of the cached analysis
extend_cached_errors(analyses, file_path, lint_warnings) ==
  [analyses EXCEPT ![file_path].errors = @ \o lint_warnings]

\* DMLLanguageServer._analyze_document (did_open, did_change and
\* _on_file_change reach it): analyze_file, lint, publish
AnalyzeFile(file_path, content) ==
  LET result == analyze_file(file_path, content)
      lint_warnings == IF lint_engine
                       THEN lint_file(file_path, content,
                                      result.file_analyses[file_path])
                       ELSE <<>>
  IN /\ file_analyses' =
          extend_cached_errors(result.file_analyses, file_path, lint_warnings)
     /\ global_symbol_table' = result.global_symbol_table
     /\ last' = [Op("analyze_file", file_path) EXCEPT
                   \* what analyze_file returned, as it was when it returned
                   !.errors = result.errors,
                   !.published = result.errors \o lint_warnings,
                   !.ran = result.ran,
                   \* the call repeats the call just before it: same file, same text
                   !.again = /\ last.op = "analyze_file"
                             /\ last.file = file_path
                             /\ file_analyses[file_path].content = content]
     /\ UNCHANGED <<vfs, root_scope, parser, lexer, analyze_call, object_resolver, template_system, lint_engine, disk, include_paths, compile_commands, file_cache,
                    dependency_graph, reverse_dependencies, disk_changes>>

DAAnalyzeFile(file_path, content) ==
  /\ steps < MaxSteps
  /\ steps' = steps + 1
  /\ AnalyzeFile(file_path, content)

\* DeviceAnalysis.invalidate_file (DMLLanguageServer._on_file_change calls it)
DAInvalidateFile(file_path) ==
  /\ steps < MaxSteps
  /\ steps' = steps + 1
  /\ LET affected_files == affected_files_of(reverse_dependencies, file_path)
     IN /\ file_analyses' = pop_affected(file_analyses, affected_files)
        /\ last' = [Op("invalidate_file", file_path) EXCEPT
                      !.files = affected_files,
                      !.dropped = affected_files \cap DOMAIN file_analyses]
  /\ UNCHANGED <<vfs, root_scope, parser, lexer, analyze_call, object_resolver, template_system, lint_engine, disk, include_paths, compile_commands, file_cache,
                 dependency_graph, reverse_dependencies, global_symbol_table,
                 disk_changes>>

\* DeviceAnalysis.get_all_symbols_in_file
QuerySymbols(file_path) ==
  /\ last.op \notin {"get_all_symbols_in_file", "find_symbol_definitions"}
  /\ last' = [Op("get_all_symbols_in_file", file_path) EXCEPT
                !.symbols = get_all_symbols_in_file(file_analyses, file_path),
                \* what the invalidation just before the query returned and dropped
                !.files = IF last.op = "invalidate_file" THEN last.files ELSE {},
                !.dropped = IF last.op = "invalidate_file" THEN last.dropped ELSE {}]
  /\ UNCHANGED <<vfs, root_scope, parser, lexer, analyze_call, object_resolver, template_system, lint_engine, disk, include_paths, compile_commands, file_cache, dependency_graph,
                 reverse_dependencies, file_analyses, global_symbol_table, steps,
                 disk_changes>>

\* DeviceAnalysis.find_symbol_definitions
QueryDefinitions(symbol_name) ==
  /\ last.op \notin {"get_all_symbols_in_file", "find_symbol_definitions"}
  /\ last' = [Op("find_symbol_definitions", NoPath) EXCEPT
                !.name = symbol_name,
                !.defs = find_symbol_definitions(global_symbol_table, symbol_name)]
  /\ UNCHANGED <<vfs, root_scope, parser, lexer, analyze_call, object_resolver, template_system, lint_engine, disk, include_paths, compile_commands, file_cache, dependency_graph,
                 reverse_dependencies, file_analyses, global_symbol_table, steps,
                 disk_changes>>

\* the editor or another program rewrites or deletes a file on disk
DiskWrite(file_path, content) ==
  /\ steps < MaxSteps
  /\ steps' = steps + 1
  /\ disk_changes < MaxDiskChanges
  /\ disk_changes' = disk_changes + 1
  /\ disk' = Put(disk, file_path, content)
  /\ last' = Op("disk_write", file_path)
  /\ UNCHANGED <<vfs, root_scope, parser, lexer, analyze_call, object_resolver, template_system, lint_engine, include_paths, compile_commands, file_cache, dependency_graph,
                 reverse_dependencies, file_analyses, global_symbol_table>>

DiskRemove(file_path) ==
  /\ steps < MaxSteps
  /\ steps' = steps + 1
  /\ file_path \in DOMAIN disk
  /\ disk_changes < MaxDiskChanges
  /\ disk_changes' = disk_changes + 1
  /\ disk' = Drop(disk, {file_path})
  /\ last' = Op("disk_remove", file_path)
  /\ UNCHANGED <<vfs, root_scope, parser, lexer, analyze_call, object_resolver, template_system, lint_engine, include_paths, compile_commands, file_cache, dependency_graph,
                 reverse_dependencies, file_analyses, global_symbol_table>>

Next ==
  \/ \E p \in Paths : FMGetFileInfo(p)
  \/ \E p \in Paths : FMInvalidateFile(p)
  \/ FMClearCache
  \/ \E p \in Paths, t \in MainTexts : DAAnalyzeFile(p, t)
  \/ \E p \in Paths : DAInvalidateFile(p)
  \/ \E p \in Paths : QuerySymbols(p)
  \/ \E n \in QueryNames : QueryDefinitions(n)
  \/ \E p \in Paths, t \in DiskTexts : DiskWrite(p, t)
  \/ \E p \in Paths : DiskRemove(p)

Spec == Init /\ [][Next]_vars

\* ------------------------------------------------------------------------
\* A single document opened in the editor: did_open hands its text to
\* _analyze_document, and the requests that follow read the result
\* ------------------------------------------------------------------------
InitParse ==
  /\ disk = InitialDisk
  /\ \E c \in ConfigChoices : /\ include_paths = c.includes
                              /\ compile_commands = c.commands
  /\ file_cache = {}
  /\ dependency_graph = EmptyMap
  /\ reverse_dependencies = EmptyMap
  /\ file_analyses = EmptyMap
  /\ global_symbol_table = EmptyMap
  /\ last = Op("init", NoPath)
  /\ steps = 0
  /\ disk_changes = 0
  /\ vfs = NewVFS
  /\ root_scope = <<>>
  /\ parser = EnhancedDMLParser(<<>>, <<>>)
  /\ lexer = DMLLexer(<<>>)
  /\ analyze_call = NoAnalyzeCall
  /\ object_resolver = NewObjectResolver
  /\ template_system = NewTemplateSystem
  /\ lint_engine = FALSE

DidOpen(content) ==
  /\ steps = 0
  /\ steps' = 1
  /\ AnalyzeFile(SrcA, content)

NextParse ==
  \/ \E t \in GeneratedTexts : DidOpen(t)
  \/ QuerySymbols(SrcA)
  \/ \E n \in QueryNames : QueryDefinitions(n)

SpecParse == InitParse /\ [][NextParse]_vars

\* ------------------------------------------------------------------------
\* Documents analyzed by a server that may have a lint engine, and the
\* diagnostics queries that follow
\* ------------------------------------------------------------------------
TxtDeviceLower == <<Dml, Device("d", <<>>)>>
TxtDevicePascal == <<Dml, Device("D", <<>>)>>
DiagTexts == {TxtDeviceLower, TxtDevicePascal, TxtImportsC}

\* initialize: lint_engine is created when the initialization options enable
\* linting
InitDiag ==
  /\ disk = InitialDisk
  /\ \E c \in ConfigChoices : /\ include_paths = c.includes
                              /\ compile_commands = c.commands
  /\ file_cache = {}
  /\ dependency_graph = EmptyMap
  /\ reverse_dependencies = EmptyMap
  /\ file_analyses = EmptyMap
  /\ global_symbol_table = EmptyMap
  /\ last = Op("init", NoPath)
  /\ steps = 0
  /\ disk_changes = 0
  /\ vfs = NewVFS
  /\ root_scope = <<>>
  /\ parser = EnhancedDMLParser(<<>>, <<>>)
  /\ lexer = DMLLexer(<<>>)
  /\ analyze_call = NoAnalyzeCall
  /\ object_resolver = NewObjectResolver
  /\ template_system = NewTemplateSystem
  /\ lint_engine \in BOOLEAN

\* DeviceAnalysis.get_diagnostics_for_file
QueryDiagnostics(file_path) ==
  /\ last' = [Op("get_diagnostics_for_file", file_path) EXCEPT
                !.errors = get_diagnostics_for_file(file_analyses, file_path)]
  /\ UNCHANGED <<vfs, root_scope, parser, lexer, analyze_call, object_resolver, template_system, lint_engine, disk, include_paths, compile_commands, file_cache,
                 dependency_graph, reverse_dependencies, file_analyses,
                 global_symbol_table, steps, disk_changes>>

NextDiag ==
  \/ \E p \in Paths, t \in DiagTexts : DAAnalyzeFile(p, t)
  \/ \E p \in Paths : DAInvalidateFile(p)
  \/ \E p \in Paths : QueryDiagnostics(p)
  \/ \E p \in Paths : QuerySymbols(p)
  \/ \E n \in QueryNames : QueryDefinitions(n)

SpecDiag == InitDiag /\ [][NextDiag]_vars

\* ------------------------------------------------------------------------
\* analyze_file run by one thread while another thread asks for diagnostics.
\* DeviceAnalysis creates _analysis_lock and never acquires it, so the
\* statements of analyze_file interleave with the queries of other threads
\* ------------------------------------------------------------------------
ThreadTexts == {TxtImportsB, TxtImportsC}

InitThreads ==
  /\ disk = InitialDisk
  /\ \E c \in ConfigChoices : /\ include_paths = c.includes
                              /\ compile_commands = c.commands
  /\ file_cache = {}
  /\ dependency_graph = EmptyMap
  /\ reverse_dependencies = EmptyMap
  /\ file_analyses = EmptyMap
  /\ global_symbol_table = EmptyMap
  /\ last = Op("init", NoPath)
  /\ steps = 0
  /\ disk_changes = 0
  /\ vfs = NewVFS
  /\ root_scope = <<>>
  /\ parser = EnhancedDMLParser(<<>>, <<>>)
  /\ lexer = DMLLexer(<<>>)
  /\ lint_engine = FALSE
  /\ template_system = NewTemplateSystem
  /\ object_resolver = NewObjectResolver
  /\ analyze_call = NoAnalyzeCall

\* analyze_file up to self.file_analyses[file_path] = analysis
ThreadStoreAnalysis(file_path, content) ==
  /\ analyze_call.pc = "idle"
  /\ steps < MaxSteps
  /\ steps' = steps + 1
  /\ file_analyses' = store_analysis(file_analyses, file_path,
                                     IsolatedAnalysis(file_path, content))
  /\ analyze_call' = [pc |-> "stored", file_path |-> file_path,
                      content |-> content,
                      analyzed |-> analyze_call.analyzed \cup {file_path}]
  /\ UNCHANGED <<vfs, root_scope, parser, lexer, disk, include_paths, compile_commands, file_cache,
                 dependency_graph, reverse_dependencies, global_symbol_table,
                 last, disk_changes, lint_engine, template_system,
                 object_resolver>>

\* self._analyze_dependencies(file_path)
ThreadAnalyzeDependencies ==
  /\ analyze_call.pc = "stored"
  /\ file_analyses' = analyze_dependencies(disk, dependency_graph, file_analyses,
                                           analyze_call.file_path)
  /\ analyze_call' = [analyze_call EXCEPT !.pc = "dependencies"]
  /\ UNCHANGED <<vfs, root_scope, parser, lexer, disk, include_paths, compile_commands, file_cache,
                 dependency_graph, reverse_dependencies, global_symbol_table,
                 last, steps, disk_changes, lint_engine, template_system,
                 object_resolver>>

\* _analyze_cross_file_references up to self._build_global_symbol_table()
ThreadBuildGlobalSymbolTable ==
  /\ analyze_call.pc = "dependencies"
  /\ global_symbol_table' = build_global_symbol_table(file_analyses)
  /\ analyze_call' = [analyze_call EXCEPT !.pc = "table"]
  /\ UNCHANGED <<vfs, root_scope, parser, lexer, disk, include_paths, compile_commands, file_cache,
                 dependency_graph, reverse_dependencies, file_analyses,
                 last, steps, disk_changes, lint_engine, template_system,
                 object_resolver>>

\* the loop that appends the import errors, and return analysis.errors
ThreadAppendImportErrors ==
  /\ analyze_call.pc = "table"
  /\ LET file_path == analyze_call.file_path
         errors == file_analyses[file_path].errors
                   \o import_errors(disk, compile_commands, include_paths,
                                    file_path, file_analyses[file_path].imports)
     IN /\ file_analyses' = [file_analyses EXCEPT ![file_path].errors = errors]
        /\ last' = [Op("analyze_file", file_path) EXCEPT !.errors = errors]
  /\ analyze_call' = [analyze_call EXCEPT !.pc = "idle"]
  /\ UNCHANGED <<vfs, root_scope, parser, lexer, disk, include_paths, compile_commands, file_cache,
                 dependency_graph, reverse_dependencies, global_symbol_table,
                 steps, disk_changes, lint_engine, template_system,
                 object_resolver>>

NextThreads ==
  \/ \E p \in Paths, t \in ThreadTexts : ThreadStoreAnalysis(p, t)
  \/ ThreadAnalyzeDependencies
  \/ ThreadBuildGlobalSymbolTable
  \/ ThreadAppendImportErrors
  \/ \E p \in Paths : FMGetFileInfo(p)
  \/ \E p \in Paths : QueryDiagnostics(p)

SpecThreads == InitThreads /\ [][NextThreads]_vars

\* ------------------------------------------------------------------------
\* A TemplateSystem driven through its own operations: add_template,
\* resolver.resolve_template and process_device
\* ------------------------------------------------------------------------
MaxTemplateOps == 4

\* the declarations are those of one file, each on a line of its own; a member
\* of a body is the k-th parameter or method of the declaration on that line
MemberSpan(line, k) == Span(SrcA, line, 2 * k, line, 2 * k + 1)
LineSpan(line) == Span(SrcA, line, 0, line, 1)

ParameterDeclarations(line, names) ==
  [k \in 1..Len(names) |-> [name |-> names[k], span |-> MemberSpan(line, k)]]

\* a method is <<name, has_body>>
MethodDeclarations(line, first, methods) ==
  [k \in 1..Len(methods) |->
     [name |-> methods[k][1], body |-> methods[k][2],
      span |-> MemberSpan(line, first + k)]]

\* is: the templates the text of the declaration names after "is".
\* EnhancedDMLParser._parse_template reports the "is" as a syntax error and
\* TemplateDeclaration has no field for it: the model keeps what the text said
TemplateDeclaration(line, name, is, parameters, methods) ==
  [name |-> name, is |-> is,
   parameters |-> ParameterDeclarations(line, parameters),
   methods |-> MethodDeclarations(line, Len(parameters), methods),
   span |-> LineSpan(line)]

DeviceDeclaration(line, name, templates, parameters, methods) ==
  [name |-> name, templates |-> templates,
   parameters |-> ParameterDeclarations(line, parameters),
   methods |-> MethodDeclarations(line, Len(parameters), methods),
   span |-> LineSpan(line)]

\* _extract_parent_templates
declared_parents(template_decl) == template_decl.is
extract_parent_templates(template_decl) == <<>>

\* _compute_method_resolution_order: the template, then its direct parents
RECURSIVE append_missing(_, _)
append_missing(mro, parents) ==
  IF parents = <<>> THEN mro
  ELSE append_missing(IF \E k \in 1..Len(mro) : mro[k] = Head(parents)
                      THEN mro ELSE Append(mro, Head(parents)),
                      Tail(parents))

compute_method_resolution_order(template_name, parents) ==
  IF parents = <<>> THEN <<template_name>>
  ELSE append_missing(<<template_name>>, parents)

Reverse(s) == [k \in 1..Len(s) |-> s[Len(s) + 1 - k]]

RECURSIVE DictPutAll(_, _)
DictPutAll(dict, entries) ==
  IF entries = <<>> THEN dict
  ELSE DictPutAll(DictPut(dict, Head(entries)), Tail(entries))

RECURSIVE DictAddMissing(_, _)
DictAddMissing(dict, entries) ==
  IF entries = <<>> THEN dict
  ELSE DictAddMissing(IF \E k \in 1..Len(dict) : dict[k].name = Head(entries).name
                      THEN dict ELSE Append(dict, Head(entries)),
                      Tail(entries))

\* _resolve_parameters: the parameters of the parents, the last parent first,
\* then the template's own, each assignment replacing an entry of that name
resolve_inherited_parameters(template_decl, parents) ==
  resolve_parameters(template_decl.name, template_decl.parameters,
    DictPutAll(<<>>, Concat([k \in 1..Len(parents) |->
                               Reverse(parents)[k].resolved_parameters])))

TemplateMethod(method_decl, source_template, override_level) ==
  [name |-> method_decl.name, declaration |-> method_decl,
   source_template |-> source_template, override_level |-> override_level]

\* _resolve_methods: over reversed(mro); the template's own methods replace
\* an entry of their name, a parent's methods are added where the name is free
RECURSIVE resolve_methods_over(_, _, _, _)
resolve_methods_over(template_decl, parents, names, resolved_methods) ==
  IF names = <<>> THEN resolved_methods
  ELSE resolve_methods_over(template_decl, parents, Tail(names),
         IF Head(names) = template_decl.name
         THEN DictPutAll(resolved_methods,
                [k \in 1..Len(template_decl.methods) |->
                   TemplateMethod(template_decl.methods[k], template_decl.name, 0)])
         ELSE DictAddMissing(resolved_methods,
                Concat([k \in 1..Len(parents) |->
                          IF parents[k].name = Head(names)
                          THEN parents[k].resolved_methods ELSE <<>>])))

resolve_methods(template_decl, parents, mro) ==
  resolve_methods_over(template_decl, parents, Reverse(mro), <<>>)

\* _resolve_template_recursive. raised: a TemplateResolutionError left the
\* call; visited: the templates that entered the visiting set during it
RECURSIVE resolve_template_recursive(_, _, _)
RECURSIVE resolve_parents(_, _, _, _, _)
resolve_parents(templates, template_name, parent_templates, visiting, done) ==
  IF parent_templates = <<>>
  THEN [raised |-> FALSE, message |-> "", arg |-> "", value |-> done, visited |-> {}]
  ELSE IF Head(parent_templates) \notin DOMAIN templates
  THEN [raised |-> TRUE, message |-> "Parent template not found",
        arg |-> Head(parent_templates), value |-> <<>>, visited |-> {}]
  ELSE LET parent_resolved ==
             resolve_template_recursive(templates, Head(parent_templates), visiting)
       IN IF parent_resolved.raised THEN parent_resolved
          ELSE LET rest == resolve_parents(templates, template_name,
                                           Tail(parent_templates), visiting,
                                           Append(done, parent_resolved.value))
               IN [rest EXCEPT !.visited = @ \cup parent_resolved.visited]

resolve_template_recursive(templates, template_name, visiting) ==
  IF template_name \in visiting
  THEN [raised |-> TRUE, message |-> "Circular template dependency detected",
        arg |-> template_name, value |-> <<>>, visited |-> {}]
  ELSE LET template_decl == templates[template_name]
           parent_templates == extract_parent_templates(template_decl)
           resolved_parents ==
             resolve_parents(templates, template_name, parent_templates,
                             visiting \cup {template_name}, <<>>)
           resolution_order ==
             compute_method_resolution_order(template_name, parent_templates)
       IN IF resolved_parents.raised
          THEN [resolved_parents EXCEPT !.visited = @ \cup {template_name}]
          ELSE [raised |-> FALSE, message |-> "", arg |-> "",
                value |->
                  [name |-> template_name,
                   original_declaration |-> template_decl,
                   resolved_parameters |->
                     resolve_inherited_parameters(template_decl,
                                                  resolved_parents.value),
                   resolved_methods |->
                     resolve_methods(template_decl, resolved_parents.value,
                                     resolution_order),
                   parent_templates |-> parent_templates,
                   resolution_order |-> resolution_order],
                visited |-> resolved_parents.visited \cup {template_name}]

\* TemplateInheritanceResolver.add_template
add_template(ts, template) ==
  [ts EXCEPT !.templates = Put(@, template.name, template)]

\* the test that opens resolve_template
never_memoized(resolved_templates, template_name) == FALSE
memoized(resolved_templates, template_name) ==
  template_name \in DOMAIN resolved_templates

\* TemplateInheritanceResolver.resolve_template on the resolver of ts: the
\* system it leaves, what it returns (None is <<>>) and the templates that
\* entered the visiting set
resolver_resolve_template(ts, template_name) ==
  IF memoized(ts.resolved_templates, template_name)
  THEN [ts |-> ts, result |-> <<ts.resolved_templates[template_name]>>,
        visited |-> {}]
  ELSE IF template_name \notin DOMAIN ts.templates
  THEN [ts |-> [ts EXCEPT !.resolver_errors =
                  Append(@, DMLError("template_error", "Template not found",
                                     template_name, ZeroZeroSpan(NoPath)))],
        result |-> <<>>, visited |-> {}]
  ELSE LET resolved == resolve_template_recursive(ts.templates, template_name, {})
       IN IF resolved.raised
          THEN [ts |-> [ts EXCEPT !.resolver_errors =
                          Append(@, DMLError("template_error", resolved.message,
                                             resolved.arg,
                                             ts.templates[template_name].span))],
                result |-> <<>>, visited |-> resolved.visited]
          ELSE [ts |-> [ts EXCEPT !.resolved_templates =
                          Put(@, template_name, resolved.value)],
                result |-> <<resolved.value>>, visited |-> resolved.visited]

\* the test "not in existing_param_names" / "not in existing_method_names"
never_present(merged, name) == FALSE
already_present(merged, name) == \E k \in 1..Len(merged) : merged[k].name = name

RECURSIVE merge_declarations(_, _)
merge_declarations(merged, declarations) ==
  IF declarations = <<>> THEN merged
  ELSE merge_declarations(IF already_present(merged, Head(declarations).name)
                          THEN merged ELSE Append(merged, Head(declarations)),
                          Tail(declarations))

\* TemplateApplicator._merge_templates_into_device
RECURSIVE merge_templates_into_device(_, _)
merge_templates_into_device(device, templates) ==
  IF templates = <<>> THEN device
  ELSE LET template == Head(templates)
       IN merge_templates_into_device(
            [device EXCEPT
               !.parameters =
                 merge_declarations(@,
                   [k \in 1..Len(template.resolved_parameters) |->
                      [name |-> template.resolved_parameters[k].name,
                       span |-> template.resolved_parameters[k].span]]),
               !.methods =
                 merge_declarations(@,
                   [k \in 1..Len(template.resolved_methods) |->
                      template.resolved_methods[k].declaration])],
            Tail(templates))

\* the loop of apply_templates_to_device over device.templates
RECURSIVE resolve_applied(_, _, _, _)
resolve_applied(ts, device, template_names, applied_templates) ==
  IF template_names = <<>>
  THEN [ts |-> ts, applied |-> applied_templates, calls |-> <<>>]
  ELSE LET call == resolver_resolve_template(ts, Head(template_names))
           next_ts ==
             IF call.result # <<>> THEN call.ts
             ELSE [call.ts EXCEPT !.applicator_errors =
                     Append(@, DMLError("template_error", "Cannot resolve template",
                                        Head(template_names), device.span))]
           rest == resolve_applied(next_ts, device, Tail(template_names),
                                   applied_templates \o call.result)
       IN [rest EXCEPT !.calls = <<[name |-> Head(template_names),
                                     result |-> call.result,
                                     visited |-> call.visited]>> \o @]

\* TemplateApplicator.apply_templates_to_device
apply_templates_to_device(ts, device) ==
  LET loop == resolve_applied(ts, device, device.templates, <<>>)
  IN [ts |-> [loop.ts EXCEPT !.applied_templates = Put(@, device.name, loop.applied)],
      enhanced_device |-> merge_templates_into_device(device, loop.applied),
      applied |-> loop.applied,
      calls |-> loop.calls]

\* TemplateSystem.process_device
process_device(ts, device) ==
  IF device.templates = <<>>
  THEN [ts |-> ts, enhanced_device |-> device, applied |-> <<>>, calls |-> <<>>]
  ELSE apply_templates_to_device(ts, device)

\* the declarations handed to the system
TplA == TemplateDeclaration(1, "a", <<"b">>, <<"x">>, <<<<"m", TRUE>>>>)
TplAChanged == TemplateDeclaration(2, "a", <<>>, <<"y">>, <<>>)
TplB == TemplateDeclaration(3, "b", <<"a">>, <<"x", "z">>, <<<<"m", FALSE>>>>)
TplBChain == TemplateDeclaration(4, "b", <<"c">>, <<"z">>, <<>>)
TplC == TemplateDeclaration(5, "c", <<>>, <<>>, <<<<"n", TRUE>>>>)
TplCTwoParents == TemplateDeclaration(9, "c", <<"a", "b">>, <<>>, <<>>)
TemplateInputs == {TplA, TplAChanged, TplB, TplBChain, TplC, TplCTwoParents}
TemplateNames == {"a", "b", "c", "u"}

DevOwn == DeviceDeclaration(6, "d", <<"a", "b">>, <<"z">>, <<<<"n", TRUE>>>>)
DevUnknown == DeviceDeclaration(7, "d", <<"u", "a">>, <<>>, <<>>)
DevPlain == DeviceDeclaration(8, "e", <<>>, <<"x">>, <<>>)
DeviceInputs == {DevOwn, DevUnknown, DevPlain}

\* the last operation on the template system. outcome: what resolve_template
\* returned for each name since the last add_template
TOp(name, arg) ==
  [op |-> name, name |-> arg, result |-> <<>>, visited |-> {}, again |-> FALSE,
   device |-> <<>>, enhanced_device |-> <<>>, applied |-> <<>>,
   outcome |-> EmptyMap]

RECURSIVE record_outcomes(_, _)
record_outcomes(outcome, calls) ==
  IF calls = <<>> THEN outcome
  ELSE record_outcomes(Put(outcome, Head(calls).name, Head(calls).result),
                       Tail(calls))

InitTemplates ==
  /\ disk = InitialDisk
  /\ include_paths = <<>>
  /\ compile_commands = <<>>
  /\ file_cache = {}
  /\ dependency_graph = EmptyMap
  /\ reverse_dependencies = EmptyMap
  /\ file_analyses = EmptyMap
  /\ global_symbol_table = EmptyMap
  /\ last = TOp("init", "")
  /\ steps = 0
  /\ disk_changes = 0
  /\ vfs = NewVFS
  /\ root_scope = <<>>
  /\ parser = EnhancedDMLParser(<<>>, <<>>)
  /\ lexer = DMLLexer(<<>>)
  /\ analyze_call = NoAnalyzeCall
  /\ object_resolver = NewObjectResolver
  /\ lint_engine = FALSE
  /\ template_system = NewTemplateSystem

\* TemplateSystem.add_template
TSAddTemplate(template) ==
  /\ steps < MaxTemplateOps
  /\ steps' = steps + 1
  /\ template_system' = add_template(template_system, template)
  /\ last' = TOp("add_template", template.name)
  /\ UNCHANGED <<vfs, root_scope, parser, lexer, analyze_call, object_resolver, disk, include_paths, compile_commands, file_cache,
                 dependency_graph, reverse_dependencies, file_analyses,
                 global_symbol_table, disk_changes, lint_engine>>

\* TemplateInheritanceResolver.resolve_template
TSResolveTemplate(template_name) ==
  /\ steps < MaxTemplateOps
  /\ steps' = steps + 1
  /\ LET call == resolver_resolve_template(template_system, template_name)
     IN /\ template_system' = call.ts
        /\ last' = [TOp("resolve_template", template_name) EXCEPT
                      !.result = call.result,
                      !.visited = call.visited,
                      !.again = template_name \in DOMAIN last.outcome,
                      !.outcome = Put(last.outcome, template_name, call.result)]
  /\ UNCHANGED <<vfs, root_scope, parser, lexer, analyze_call, object_resolver, disk, include_paths, compile_commands, file_cache,
                 dependency_graph, reverse_dependencies, file_analyses,
                 global_symbol_table, disk_changes, lint_engine>>

\* TemplateSystem.process_device
TSProcessDevice(device) ==
  /\ steps < MaxTemplateOps
  /\ steps' = steps + 1
  /\ LET call == process_device(template_system, device)
     IN /\ template_system' = call.ts
        /\ last' = [TOp("process_device", device.name) EXCEPT
                      !.device = <<device>>,
                      !.enhanced_device = <<call.enhanced_device>>,
                      !.applied = call.applied,
                      !.outcome = record_outcomes(last.outcome, call.calls)]
  /\ UNCHANGED <<vfs, root_scope, parser, lexer, analyze_call, object_resolver, disk, include_paths, compile_commands, file_cache,
                 dependency_graph, reverse_dependencies, file_analyses,
                 global_symbol_table, disk_changes, lint_engine>>

NextTemplates ==
  \/ \E t \in TemplateInputs : TSAddTemplate(t)
  \/ \E n \in TemplateNames : TSResolveTemplate(n)
  \/ \E d \in DeviceInputs : TSProcessDevice(d)

SpecTemplates == InitTemplates /\ [][NextTemplates]_vars

\* ------------------------------------------------------------------------
\* An ObjectResolver driven through register_template and resolve_device,
\* and its method registry asked for the abstract methods left unimplemented
\* ------------------------------------------------------------------------
MaxObjectOps == 3

\* structure.objects.Method. return_type: the text names a return type;
\* arity: the number of formal parameters, each of which carries a type
Method(span, name, return_type, arity, body, is_extern) ==
  [name |-> name, span |-> span, return_type |-> return_type, arity |-> arity,
   body |-> body, is_extern |-> is_extern]

\* structure.objects.Template and Device; the children are methods
ObjectTemplate(line, name, children) ==
  [kind |-> "template", name |-> name, span |-> LineSpan(line),
   templates |-> <<>>, children |-> children]

ObjectDevice(line, name, templates, children) ==
  [kind |-> "device", name |-> name, span |-> LineSpan(line),
   templates |-> templates, children |-> children]

\* the signature analyze_method builds: every parameter type is a dummy type,
\* the return type is a dummy type when the text names one and void otherwise
MethodSignature(method) ==
  [name |-> method.name, arity |-> method.arity,
   return_type |-> IF method.return_type THEN "dummy" ELSE "void"]

\* DMLResolvedType.equivalent: two dummy types, or two concrete types of one
\* name
equivalent(a, b) ==
  \/ a = "dummy" /\ b = "dummy"
  \/ a # "dummy" /\ b # "dummy" /\ a = b

\* MethodSignature.matches
matches(self, other) ==
  /\ self.name = other.name
  /\ self.arity = other.arity
  /\ equivalent(self.return_type, other.return_type)

\* MethodSignature.is_compatible_override
is_compatible_override(self, base_signature) ==
  /\ self.name = base_signature.name
  /\ self.arity = base_signature.arity
  /\ equivalent(self.return_type, base_signature.return_type)

\* the MethodDeclaration that MethodAnalyzer.analyze_method creates
analyze_method(method, declaring_object) ==
  [name |-> method.name, span |-> method.span,
   signature |-> MethodSignature(method), body |-> method.body,
   is_abstract |-> (~method.body /\ ~method.is_extern),
   declaring_object |-> declaring_object]

\* MethodDeclaration.is_concrete
is_concrete(method) == method.body /\ ~method.is_abstract

DuplicateSignatureMsg == "Duplicate method signature"
InvalidOverrideMsg == "Invalid method override"
AbstractNotImplementedMsg == "Abstract method not implemented"
TemplateMethodConflictMsg == "Template method conflicts with existing method"
ObjectTemplateNotFoundMsg == "Template not found"

\* the methods registered under a name
overload_of(methods, name) ==
  IF \E k \in 1..Len(methods) : methods[k].name = name
  THEN methods[CHOOSE k \in 1..Len(methods) : methods[k].name = name].methods
  ELSE <<>>

\* MethodRegistry.register_method, the check against the methods registered
\* before
RECURSIVE signature_conflicts(_, _)
signature_conflicts(existing, method) ==
  IF existing = <<>> THEN <<>>
  ELSE (IF matches(Head(existing).signature, method.signature)
        THEN IF Head(existing).declaring_object = method.declaring_object
             THEN <<DMLError("duplicate_symbol", DuplicateSignatureMsg,
                             method.name, method.span)>>
             ELSE IF ~is_compatible_override(method.signature,
                                             Head(existing).signature)
                  THEN <<DMLError("semantic_error", InvalidOverrideMsg,
                                  method.name, method.span)>>
                  ELSE <<>>
        ELSE <<>>)
       \o signature_conflicts(Tail(existing), method)

\* MethodRegistry.register_method; r is the resolver that owns the registry
register_method(r, method) ==
  LET existing == overload_of(r.methods, method.name)
  IN [r EXCEPT
        !.registry_errors = @ \o signature_conflicts(existing, method),
        !.methods = DictPut(@, [name |-> method.name,
                                methods |-> Append(existing, method)])]

\* MethodOverload.has_abstract_methods
has_abstract_methods(overload) ==
  \E k \in 1..Len(overload.methods) : overload.methods[k].is_abstract

\* next(m for m in overload.methods if m.is_abstract)
first_abstract(overload) ==
  overload.methods[CHOOSE k \in 1..Len(overload.methods) :
                     /\ overload.methods[k].is_abstract
                     /\ \A j \in 1..(k - 1) : ~overload.methods[j].is_abstract]

\* MethodRegistry.check_abstract_methods: the error of each overload set
RECURSIVE check_abstract_overloads(_, _)
check_abstract_overloads(overloads, object_name) ==
  IF overloads = <<>> THEN <<>>
  ELSE LET overload == Head(overloads)
           has_concrete == \E k \in 1..Len(overload.methods) :
                              is_concrete(overload.methods[k])
       IN (IF has_abstract_methods(overload) /\ ~has_concrete
           THEN <<DMLError("semantic_error", AbstractNotImplementedMsg,
                           <<overload.name, object_name>>,
                           first_abstract(overload).span)>>
           ELSE <<>>)
          \o check_abstract_overloads(Tail(overloads), object_name)

check_abstract_methods(r, object_name) ==
  check_abstract_overloads(r.methods, object_name)

\* analyze_method on each method among the children, in order
RECURSIVE analyze_methods(_, _, _, _)
analyze_methods(r, children, declaring_object, done) ==
  IF children = <<>> THEN [r |-> r, methods |-> done]
  ELSE LET method_decl == analyze_method(Head(children), declaring_object)
       IN analyze_methods(register_method(r, method_decl), Tail(children),
                          declaring_object, Append(done, method_decl))

\* ObjectResolver._instantiate_template
instantiate_template(r, template) ==
  LET analyzed == analyze_methods(r, template.children, template.name, <<>>)
  IN [r |-> analyzed.r,
      instance |-> [template |-> template.name,
                    instantiated_methods |-> analyzed.methods]]

\* DMLCompositeObject.__init__
DMLCompositeObject(base_object) ==
  [base_object |-> base_object, applied_templates |-> <<>>,
   resolved_methods |-> <<>>, composition_errors |-> <<>>]

\* DMLCompositeObject.apply_template, the merge of the template's methods
RECURSIVE merge_template_methods(_, _)
merge_template_methods(composite, methods) ==
  IF methods = <<>> THEN composite
  ELSE LET method == Head(methods)
           conflict ==
             \E k \in 1..Len(composite.resolved_methods) :
                /\ composite.resolved_methods[k].name = method.name
                /\ ~is_compatible_override(
                      method.signature,
                      composite.resolved_methods[k].signature)
       IN merge_template_methods(
            [composite EXCEPT
               !.composition_errors =
                  IF conflict
                  THEN Append(@, DMLError("template_error",
                                          TemplateMethodConflictMsg,
                                          method.name, method.span))
                  ELSE @,
               !.resolved_methods = DictPut(@, method)],
            Tail(methods))

\* DMLCompositeObject.apply_template
apply_template(composite, template_instance) ==
  merge_template_methods(
    [composite EXCEPT !.applied_templates =
                         Append(@, template_instance.template)],
    template_instance.instantiated_methods)

\* DMLCompositeObject.get_final_object
get_final_object(composite) ==
  [name |-> composite.base_object.name,
   span |-> composite.base_object.span,
   template_applications |-> composite.applied_templates,
   resolved_type |->
     IF composite.composition_errors # <<>> THEN "error"
     ELSE IF \E k \in 1..Len(composite.resolved_methods) :
                composite.resolved_methods[k].is_abstract
          THEN "abstract"
          ELSE "concrete",
   methods |-> composite.resolved_methods,
   errors |-> composite.composition_errors]

\* _resolve_object_impl, the loop over obj.templates
RECURSIVE apply_object_templates(_, _, _, _)
apply_object_templates(r, composite, obj, template_names) ==
  IF template_names = <<>> THEN [r |-> r, composite |-> composite]
  ELSE LET template_name == Head(template_names)
       IN IF template_name \in DOMAIN r.template_registry
          THEN LET made == instantiate_template(
                             r, r.template_registry[template_name])
               IN apply_object_templates(
                    made.r, apply_template(composite, made.instance), obj,
                    Tail(template_names))
          ELSE apply_object_templates(
                 [r EXCEPT !.errors =
                              Append(@, DMLError("template_error",
                                                 ObjectTemplateNotFoundMsg,
                                                 template_name, obj.span))],
                 composite, obj, Tail(template_names))

\* _resolve_object_impl, the loop over the object's own methods
RECURSIVE analyze_own_methods(_, _, _, _)
analyze_own_methods(r, composite, children, object_path) ==
  IF children = <<>> THEN [r |-> r, composite |-> composite]
  ELSE LET method_decl == analyze_method(Head(children), object_path)
       IN analyze_own_methods(
            register_method(r, method_decl),
            [composite EXCEPT !.resolved_methods = DictPut(@, method_decl)],
            Tail(children), object_path)

\* ObjectResolver._resolve_object_impl
resolve_object_impl(r, obj, object_path) ==
  LET applied == apply_object_templates(r, DMLCompositeObject(obj), obj,
                                        obj.templates)
      own == analyze_own_methods(applied.r, applied.composite, obj.children,
                                 object_path)
  IN [r |-> own.r, resolved_obj |-> get_final_object(own.composite)]

\* ObjectResolver.resolve_object of a top-level object: the resolution stack
\* is empty, so the path is the object's name and no cycle is found
resolve_object(r, obj) ==
  LET object_path == obj.name
  IN IF object_path \in DOMAIN r.object_cache
     THEN [r |-> r, resolved_obj |-> r.object_cache[object_path],
           cached |-> TRUE]
     ELSE LET impl == resolve_object_impl(r, obj, object_path)
          IN [r |-> [impl.r EXCEPT !.object_cache =
                                      Put(@, object_path, impl.resolved_obj)],
              resolved_obj |-> impl.resolved_obj,
              cached |-> FALSE]

\* ObjectResolver.register_template
register_template(r, template) ==
  [r EXCEPT !.template_registry = Put(@, template.name, template)]

\* t declares m without a body; s declares m with one; r declares m with a
\* return type and a body, and an extern x
ObjTplAbstract ==
  ObjectTemplate(1, "t", <<Method(MemberSpan(1, 1), "m", FALSE, 0, FALSE, FALSE)>>)
ObjTplConcrete ==
  ObjectTemplate(2, "s", <<Method(MemberSpan(2, 1), "m", FALSE, 0, TRUE, FALSE)>>)
ObjTplReturns ==
  ObjectTemplate(3, "r", <<Method(MemberSpan(3, 1), "m", TRUE, 0, TRUE, FALSE),
                           Method(MemberSpan(3, 2), "x", FALSE, 0, FALSE, TRUE)>>)
ObjectTemplateInputs == {ObjTplAbstract, ObjTplConcrete, ObjTplReturns}

ObjDevAbstract == ObjectDevice(5, "d", <<"t">>, <<>>)
ObjDevLaterConcrete == ObjectDevice(5, "d", <<"t", "s">>, <<>>)
ObjDevConflict == ObjectDevice(5, "d", <<"t", "r">>, <<>>)
ObjDevImplements ==
  ObjectDevice(6, "e", <<"t">>,
               <<Method(MemberSpan(6, 1), "m", FALSE, 0, TRUE, FALSE)>>)
ObjDevOwnAbstract ==
  ObjectDevice(6, "e", <<>>,
               <<Method(MemberSpan(6, 1), "n", FALSE, 0, FALSE, FALSE)>>)
ObjectDeviceInputs == {ObjDevAbstract, ObjDevLaterConcrete, ObjDevConflict,
                       ObjDevImplements, ObjDevOwnAbstract}
ObjectNames == {"d", "e"}

\* the last operation on the object resolver
OOp(name, arg) ==
  [op |-> name, name |-> arg, device |-> <<>>, resolved_obj |-> <<>>,
   cached |-> FALSE, errors |-> <<>>]

InitObjects ==
  /\ disk = InitialDisk
  /\ include_paths = <<>>
  /\ compile_commands = <<>>
  /\ file_cache = {}
  /\ dependency_graph = EmptyMap
  /\ reverse_dependencies = EmptyMap
  /\ file_analyses = EmptyMap
  /\ global_symbol_table = EmptyMap
  /\ last = OOp("init", "")
  /\ steps = 0
  /\ disk_changes = 0
  /\ vfs = NewVFS
  /\ root_scope = <<>>
  /\ parser = EnhancedDMLParser(<<>>, <<>>)
  /\ lexer = DMLLexer(<<>>)
  /\ analyze_call = NoAnalyzeCall
  /\ lint_engine = FALSE
  /\ template_system = NewTemplateSystem
  /\ object_resolver = NewObjectResolver

\* ObjectResolver.register_template
ORRegisterTemplate(template) ==
  /\ steps < MaxObjectOps
  /\ steps' = steps + 1
  /\ object_resolver' = register_template(object_resolver, template)
  /\ last' = OOp("register_template", template.name)
  /\ UNCHANGED <<vfs, root_scope, parser, lexer, analyze_call, disk, include_paths, compile_commands, file_cache,
                 dependency_graph, reverse_dependencies, file_analyses,
                 global_symbol_table, disk_changes, lint_engine,
                 template_system>>

\* ObjectResolver.resolve_device
ORResolveDevice(device) ==
  /\ steps < MaxObjectOps
  /\ steps' = steps + 1
  /\ LET call == resolve_object(object_resolver, device)
     IN /\ object_resolver' = call.r
        /\ last' = [OOp("resolve_device", device.name) EXCEPT
                      !.device = <<device>>,
                      !.resolved_obj = <<call.resolved_obj>>,
                      !.cached = call.cached]
  /\ UNCHANGED <<vfs, root_scope, parser, lexer, analyze_call, disk, include_paths, compile_commands, file_cache,
                 dependency_graph, reverse_dependencies, file_analyses,
                 global_symbol_table, disk_changes, lint_engine,
                 template_system>>

\* MethodRegistry.check_abstract_methods
ORCheckAbstractMethods(object_name) ==
  /\ last' = [OOp("check_abstract_methods", object_name) EXCEPT
                !.errors = check_abstract_methods(object_resolver, object_name)]
  /\ UNCHANGED <<vfs, root_scope, parser, lexer, analyze_call, disk, include_paths, compile_commands, file_cache,
                 dependency_graph, reverse_dependencies, file_analyses,
                 global_symbol_table, steps, disk_changes, lint_engine,
                 template_system, object_resolver>>

NextObjects ==
  \/ \E t \in ObjectTemplateInputs : ORRegisterTemplate(t)
  \/ \E d \in ObjectDeviceInputs : ORResolveDevice(d)
  \/ \E n \in ObjectNames : ORCheckAbstractMethods(n)

SpecObjects == InitObjects /\ [][NextObjects]_vars

\* ------------------------------------------------------------------------
\* DMLLexer.tokenize, one pass through its loop at a time. A text is a
\* sequence of characters; position p of the code is character p + 1 here
\* ------------------------------------------------------------------------
MaxSourceLen == 4

\* a letter, a digit, the two kinds of white space, the characters of
\* comments and of the operators / * = /= *= ==, the quote of string literals
\* and the backslash, which escapes a character inside a string literal and
\* starts no token outside of one
SourceAlphabet == {"a", "1", " ", "\n", "/", "*", "=", "\"", "\\"}
SourceTexts == UNION {[1..n -> SourceAlphabet] : n \in 0..MaxSourceLen}

isspace(char) == char \in {" ", "\n"}
isdigit(char) == char = "1"
isalpha(char) == char = "a"
isalnum(char) == isalpha(char) \/ isdigit(char)

\* content[self.position]
char_at(content, position) == content[position + 1]

\* the part of a lexer that the readers move
advance(lx, n) == [lx EXCEPT !.position = @ + n, !.column = @ + n]
newline(lx) == [lx EXCEPT !.position = @ + 1, !.line = @ + 1, !.column = 0]

\* _skip_line_comment
RECURSIVE skip_line_comment(_)
skip_line_comment(lx) ==
  IF lx.position < Len(lx.content) /\ char_at(lx.content, lx.position) # "\n"
  THEN skip_line_comment(advance(lx, 1))
  ELSE lx

\* _skip_block_comment, its loop
RECURSIVE skip_block_comment_loop(_)
skip_block_comment_loop(lx) ==
  IF lx.position + 1 < Len(lx.content)
  THEN IF /\ char_at(lx.content, lx.position) = "*"
          /\ char_at(lx.content, lx.position + 1) = "/"
       THEN advance(lx, 2)
       ELSE IF char_at(lx.content, lx.position) = "\n"
            THEN skip_block_comment_loop(newline(lx))
            ELSE skip_block_comment_loop(advance(lx, 1))
  ELSE lx

skip_block_comment(lx) == skip_block_comment_loop(advance(lx, 2))

\* _skip_whitespace_and_comments
RECURSIVE skip_whitespace_and_comments(_)
skip_whitespace_and_comments(lx) ==
  IF lx.position < Len(lx.content)
  THEN LET char == char_at(lx.content, lx.position)
       IN IF isspace(char)
          THEN skip_whitespace_and_comments(
                 IF char = "\n" THEN newline(lx) ELSE advance(lx, 1))
          ELSE IF char = "/" /\ lx.position + 1 < Len(lx.content)
               THEN LET next_char == char_at(lx.content, lx.position + 1)
                    IN IF next_char = "/"
                       THEN skip_whitespace_and_comments(skip_line_comment(lx))
                       ELSE IF next_char = "*"
                            THEN skip_whitespace_and_comments(skip_block_comment(lx))
                            ELSE lx
               ELSE lx
  ELSE lx

\* DMLToken. start and end are the positions of the lexer before and after
\* the token was read
DMLToken(type, value, lx_start, lx_end) ==
  [type |-> type, value |-> value,
   span |-> Span(SrcA, lx_start.line, lx_start.column, lx_end.line, lx_end.column),
   start |-> lx_start.position, end |-> lx_end.position]

\* _read_string_literal, its loop
RECURSIVE read_string_loop(_, _)
read_string_loop(lx, value) ==
  IF lx.position < Len(lx.content)
  THEN LET char == char_at(lx.content, lx.position)
       IN IF char = "\""
          THEN [lx |-> advance(lx, 1), value |-> value]
          ELSE IF char = "\\" /\ lx.position + 1 < Len(lx.content)
               THEN read_string_loop(
                      advance(lx, 2),
                      Append(value, char_at(lx.content, lx.position + 1)))
               ELSE read_string_loop(
                      IF char = "\n" THEN newline(lx) ELSE advance(lx, 1),
                      Append(value, char))
  ELSE [lx |-> lx, value |-> value]

read_string_literal(lx) ==
  LET read == read_string_loop(advance(lx, 1), <<>>)
  IN [lx |-> read.lx, token |-> DMLToken("STRING", read.value, lx, read.lx)]

\* _read_number: the alphabet has no x, no dot, no e and no suffix letter, so
\* a number is a run of digits
RECURSIVE read_digits(_, _)
read_digits(lx, value) ==
  IF lx.position < Len(lx.content) /\ isdigit(char_at(lx.content, lx.position))
  THEN read_digits(advance(lx, 1), Append(value, char_at(lx.content, lx.position)))
  ELSE [lx |-> lx, value |-> value]

read_number(lx) ==
  LET read == read_digits(lx, <<>>)
  IN [lx |-> read.lx, token |-> DMLToken("NUMBER", read.value, lx, read.lx)]

\* _read_identifier: the alphabet spells no keyword
RECURSIVE read_alnum(_, _)
read_alnum(lx, value) ==
  IF lx.position < Len(lx.content) /\ isalnum(char_at(lx.content, lx.position))
  THEN read_alnum(advance(lx, 1), Append(value, char_at(lx.content, lx.position)))
  ELSE [lx |-> lx, value |-> value]

read_identifier(lx) ==
  LET read == read_alnum(lx, <<>>)
  IN [lx |-> read.lx, token |-> DMLToken("IDENTIFIER", read.value, lx, read.lx)]

\* OPERATORS, in the order of the list, those the alphabet can spell
OPERATORS ==
  << <<<<"/", "=">>, "DIV_ASSIGN">>, <<<<"*", "=">>, "MULT_ASSIGN">>,
     <<<<"=", "=">>, "EQUALS">>, <<<<"=">>, "ASSIGN">>,
     <<<<"*">>, "MULTIPLY">>, <<<<"/">>, "DIVIDE">> >>

\* self.content[self.position:].startswith(op_str)
startswith(content, position, op_str) ==
  /\ position + Len(op_str) <= Len(content)
  /\ \A k \in 1..Len(op_str) : content[position + k] = op_str[k]

\* an Invalid token that leaves the character unread
invalid_token_unread(lx) ==
  [lx |-> lx,
   token |-> DMLToken("INVALID", <<char_at(lx.content, lx.position)>>, lx, lx)]

\* the Invalid token of _next_token
invalid_token(lx) ==
  [lx |-> advance(lx, 1),
   token |-> DMLToken("INVALID", <<char_at(lx.content, lx.position)>>,
                      lx, advance(lx, 1))]

\* _next_token, called with position < len(content)
next_token(lx) ==
  LET char == char_at(lx.content, lx.position)
      matching == {k \in 1..Len(OPERATORS) :
                     startswith(lx.content, lx.position, OPERATORS[k][1])}
  IN IF char = "\"" THEN read_string_literal(lx)
     ELSE IF isdigit(char) THEN read_number(lx)
     ELSE IF isalpha(char) \/ char = "_" THEN read_identifier(lx)
     ELSE IF matching # {}
     THEN LET k == CHOOSE i \in matching : \A j \in matching : i <= j
              after == advance(lx, Len(OPERATORS[k][1]))
          IN [lx |-> after,
              token |-> DMLToken(OPERATORS[k][2], OPERATORS[k][1], lx, after)]
     ELSE invalid_token(lx)

\* the EOF token tokenize appends
eof_token(lx) == DMLToken("EOF", <<>>, lx, lx)

InitLex ==
  /\ disk = InitialDisk
  /\ include_paths = <<>>
  /\ compile_commands = <<>>
  /\ file_cache = {}
  /\ dependency_graph = EmptyMap
  /\ reverse_dependencies = EmptyMap
  /\ file_analyses = EmptyMap
  /\ global_symbol_table = EmptyMap
  /\ last = Op("init", NoPath)
  /\ steps = 0
  /\ disk_changes = 0
  /\ vfs = NewVFS
  /\ root_scope = <<>>
  /\ parser = EnhancedDMLParser(<<>>, <<>>)
  /\ lint_engine = FALSE
  /\ template_system = NewTemplateSystem
  /\ object_resolver = NewObjectResolver
  /\ analyze_call = NoAnalyzeCall
  /\ \E content \in SourceTexts : lexer = DMLLexer(content)

\* tokenize: one pass through the body of its while loop
TokenizeIteration ==
  /\ ~lexer.done
  /\ lexer.position < Len(lexer.content)
  /\ LET skipped == skip_whitespace_and_comments(lexer)
     IN lexer' =
          IF skipped.position >= Len(skipped.content)
          THEN [skipped EXCEPT !.iterations = @ + 1]
          ELSE LET read == next_token(skipped)
               IN [read.lx EXCEPT !.tokens = Append(@, read.token),
                                  !.iterations = @ + 1]
  /\ UNCHANGED <<vfs, root_scope, parser, disk, include_paths, compile_commands, file_cache,
                 dependency_graph, reverse_dependencies, file_analyses,
                 global_symbol_table, last, steps, disk_changes, lint_engine,
                 template_system, object_resolver, analyze_call>>

\* tokenize: the loop has ended, the EOF token is appended and the tokens are
\* returned
TokenizeReturn ==
  /\ ~lexer.done
  /\ lexer.position >= Len(lexer.content)
  /\ lexer' = [lexer EXCEPT !.tokens = Append(@, eof_token(lexer)),
                            !.done = TRUE]
  /\ UNCHANGED <<vfs, root_scope, parser, disk, include_paths, compile_commands, file_cache,
                 dependency_graph, reverse_dependencies, file_analyses,
                 global_symbol_table, last, steps, disk_changes, lint_engine,
                 template_system, object_resolver, analyze_call>>

NextLex ==
  \/ TokenizeIteration
  \/ TokenizeReturn

SpecLex == InitLex /\ [][NextLex]_vars

\* ------------------------------------------------------------------------
\* EnhancedDMLParser.parse on the tokens of a text, one top-level
\* declaration at a time. Position p of the code is token p + 1 here
\* ------------------------------------------------------------------------
MaxItems == 3

\* the k-th token of a text; every token is one column wide
Token(type, value) == [type |-> type, value |-> value]
PlacedToken(token, k) ==
  [type |-> token.type, value |-> token.value, span |-> Span(SrcA, 0, k - 1, 0, k)]

KwDml == Token("DML", "dml")
KwImport == Token("IMPORT", "import")
KwDevice == Token("DEVICE", "device")
KwTemplate == Token("TEMPLATE", "template")
KwParameter == Token("PARAMETER", "parameter")
KwIs == Token("IS", "is")
Semicolon == Token("SEMICOLON", ";")
LeftBrace == Token("LEFT_BRACE", "{")
RightBrace == Token("RIGHT_BRACE", "}")
Identifier(name) == Token("IDENTIFIER", name)

\* a declaration as written: its tokens, whether it is well formed, and the
\* kind and the name of the symbol a well-formed one declares
Item(tokens, well_formed, kind, name) ==
  [tokens |-> tokens, well_formed |-> well_formed, kind |-> kind, name |-> name]

WellFormedItems ==
  { Item(<<KwDml, Token("NUMBER", "1.4"), Semicolon>>, TRUE, "Constant", "dml"),
    Item(<<KwDevice, Identifier("d"), Semicolon>>, TRUE, "Device", "d"),
    Item(<<KwDevice, Identifier("e"), KwIs, Identifier("t"), Semicolon>>,
         TRUE, "Device", "e"),
    Item(<<KwTemplate, Identifier("t"), LeftBrace, RightBrace>>,
         TRUE, "Template", "t"),
    Item(<<KwTemplate, Identifier("u"), LeftBrace,
           KwParameter, Identifier("x"), Semicolon, RightBrace>>,
         TRUE, "Template", "u"),
    Item(<<KwParameter, Identifier("p"), Semicolon>>, TRUE, "Parameter", "p") }

\* a name is missing, a token is left over, the semicolon is missing, a
\* template names its parents, a string is missing
FaultyItems ==
  { Item(<<KwDevice, Semicolon>>, FALSE, "", ""),
    Item(<<KwDevice, Identifier("d"), Identifier("d"), Semicolon>>, FALSE, "", ""),
    Item(<<KwDevice, Identifier("d")>>, FALSE, "", ""),
    Item(<<KwTemplate, LeftBrace, RightBrace>>, FALSE, "", ""),
    Item(<<KwTemplate, Identifier("t"), KwIs, Identifier("u"),
           LeftBrace, RightBrace>>, FALSE, "", ""),
    Item(<<KwImport, Semicolon>>, FALSE, "", ""),
    Item(<<Identifier("d"), Semicolon>>, FALSE, "", "") }

Items == WellFormedItems \cup FaultyItems
ItemTexts == UNION {[1..n -> Items] : n \in 0..MaxItems}

\* the tokens DMLLexer.tokenize returns for a text written from the items
tokens_of(items) ==
  LET flat == Concat([k \in 1..Len(items) |-> items[k].tokens])
  IN [k \in 1..(Len(flat) + 1) |->
        IF k <= Len(flat) THEN PlacedToken(flat[k], k)
        ELSE [type |-> "EOF", value |-> "",
              span |-> Span(SrcA, 0, Len(flat), 0, Len(flat))]]

\* the number of tokens before the k-th item
RECURSIVE tokens_before(_, _)
tokens_before(items, k) ==
  IF k <= 1 THEN 0 ELSE tokens_before(items, k - 1) + Len(items[k - 1].tokens)

\* _current_token
current_token(p) ==
  IF p.position >= Len(p.tokens) THEN p.tokens[Len(p.tokens)]
  ELSE p.tokens[p.position + 1]

\* _previous_token: self.tokens[self.position - 1], the last token when the
\* position is 0
previous_token(p) ==
  IF p.position = 0 THEN p.tokens[Len(p.tokens)] ELSE p.tokens[p.position]

\* _is_at_end
is_at_end(p) == current_token(p).type = "EOF"

\* _advance
parser_advance(p) ==
  IF ~is_at_end(p) THEN [p EXCEPT !.position = @ + 1] ELSE p

\* _check
parser_check(p, token_type) ==
  ~is_at_end(p) /\ current_token(p).type = token_type

\* _match with one token type
parser_match(p, token_type) ==
  IF parser_check(p, token_type)
  THEN [p |-> parser_advance(p), matched |-> TRUE]
  ELSE [p |-> p, matched |-> FALSE]

\* the token types at which _synchronize stops
SynchronizationKeywords ==
  {"DEVICE", "TEMPLATE", "BANK", "REGISTER", "FIELD", "METHOD", "PARAMETER",
   "IMPORT", "DML"}

\* a loop that stops where it starts
synchronize_nowhere(p) == p

\* _synchronize, its loop
RECURSIVE synchronize_loop(_)
synchronize_loop(p) ==
  IF is_at_end(p) THEN p
  ELSE IF previous_token(p).type = "SEMICOLON" THEN p
  ELSE IF current_token(p).type \in SynchronizationKeywords THEN p
  ELSE synchronize_loop(parser_advance(p))

\* _synchronize
synchronize(p) == synchronize_loop(parser_advance(p))

\* _error
parser_error(p, message) ==
  LET reported == [p EXCEPT !.errors =
                     Append(@, DMLError("syntax_error", message, "",
                                        current_token(p).span))]
      recovered == synchronize(reported)
  IN [recovered EXCEPT !.recoveries =
        Append(@, [from |-> p.position, to |-> recovered.position])]

\* _consume
parser_consume(p, token_type, message) ==
  IF parser_check(p, token_type)
  THEN [p |-> parser_advance(p), token |-> current_token(p)]
  ELSE LET failed == parser_error(p, message)
       IN [p |-> failed, token |-> current_token(failed)]

\* ZeroSpan(start_span.file_path, ZeroRange(start_span.range.start,
\* end_span.range.end))
combined_span(start_span, end_span) ==
  Span(start_span.file, start_span.sl, start_span.sc, end_span.el, end_span.ec)

Declaration(kind, name, templates, params, span) ==
  [kind |-> kind, name |-> name, templates |-> templates, params |-> params,
   span |-> span]

\* _parse_dml_version
parse_dml_version(p) ==
  LET start_span == previous_token(p).span
      version == parser_consume(p, "NUMBER", "Expected version number after 'dml'")
      semi == parser_consume(version.p, "SEMICOLON", "Expected ';' after DML version")
  IN [p |-> semi.p,
      decl |-> <<Declaration("dml", version.token.value, <<>>, <<>>,
                             combined_span(start_span, previous_token(semi.p).span))>>]

\* _parse_import
parse_import(p) ==
  LET start_span == previous_token(p).span
      module == parser_consume(p, "STRING", "Expected module name after 'import'")
      semi == parser_consume(module.p, "SEMICOLON", "Expected ';' after import")
  IN [p |-> [semi.p EXCEPT !.imports = Append(@, module.token.value)],
      decl |-> <<Declaration("import", module.token.value, <<>>, <<>>,
                             combined_span(start_span, previous_token(semi.p).span))>>]

\* _parse_device, the loop over ", template"
RECURSIVE parse_more_templates(_, _)
parse_more_templates(p, templates) ==
  LET comma == parser_match(p, "COMMA")
  IN IF comma.matched
     THEN LET template == parser_consume(comma.p, "IDENTIFIER",
                                         "Expected template name after ','")
          IN parse_more_templates(template.p, Append(templates, template.token.value))
     ELSE [p |-> p, templates |-> templates]

\* _parse_device
parse_device(p) ==
  LET start_span == previous_token(p).span
      name == parser_consume(p, "IDENTIFIER", "Expected device name")
      is == parser_match(name.p, "IS")
      applied ==
        IF is.matched
        THEN LET template == parser_consume(is.p, "IDENTIFIER",
                                            "Expected template name after 'is'")
             IN parse_more_templates(template.p, <<template.token.value>>)
        ELSE [p |-> is.p, templates |-> <<>>]
      semi == parser_consume(applied.p, "SEMICOLON",
                             "Expected ';' after device declaration")
  IN [p |-> semi.p,
      decl |-> <<Declaration("device", name.token.value, applied.templates, <<>>,
                             combined_span(start_span, previous_token(semi.p).span))>>]

\* _parse_parameter; the texts have no ':' and no '='
parse_parameter(p) ==
  LET start_span == previous_token(p).span
      name == parser_consume(p, "IDENTIFIER", "Expected parameter name")
      semi == parser_consume(name.p, "SEMICOLON", "Expected ';' after parameter")
  IN [p |-> semi.p,
      decl |-> <<Declaration("parameter", name.token.value, <<>>, <<>>,
                             combined_span(start_span, previous_token(semi.p).span))>>]

\* _parse_template, the loop over the body; the texts have no method, field,
\* register or bank
RECURSIVE parse_template_body(_, _)
parse_template_body(p, parameters) ==
  IF ~parser_check(p, "RIGHT_BRACE") /\ ~is_at_end(p)
  THEN LET parameter == parser_match(p, "PARAMETER")
       IN IF parameter.matched
          THEN LET parsed == parse_parameter(parameter.p)
               IN parse_template_body(
                    parsed.p,
                    Append(parameters, [name |-> parsed.decl[1].name,
                                        span |-> parsed.decl[1].span]))
          ELSE parse_template_body(parser_advance(p), parameters)
  ELSE [p |-> p, parameters |-> parameters]

\* _parse_template
parse_template(p) ==
  LET start_span == previous_token(p).span
      name == parser_consume(p, "IDENTIFIER", "Expected template name")
      brace == parser_consume(name.p, "LEFT_BRACE", "Expected '{' after template name")
      body == parse_template_body(brace.p, <<>>)
      closing == parser_consume(body.p, "RIGHT_BRACE", "Expected '}' after template body")
  IN [p |-> closing.p,
      decl |-> <<Declaration("template", name.token.value, <<>>, body.parameters,
                             combined_span(start_span,
                                           previous_token(closing.p).span))>>]

\* _parse_top_level_declaration; the texts have no typedef, connect, bank,
\* attribute, event, group or constant
parse_top_level_declaration(p) ==
  IF parser_check(p, "DML") THEN parse_dml_version(parser_advance(p))
  ELSE IF parser_check(p, "IMPORT") THEN parse_import(parser_advance(p))
  ELSE IF parser_check(p, "DEVICE") THEN parse_device(parser_advance(p))
  ELSE IF parser_check(p, "TEMPLATE") THEN parse_template(parser_advance(p))
  ELSE IF parser_check(p, "PARAMETER") THEN parse_parameter(parser_advance(p))
  ELSE [p |-> parser_advance(p), decl |-> <<>>]

InitParser ==
  /\ disk = InitialDisk
  /\ include_paths = <<>>
  /\ compile_commands = <<>>
  /\ file_cache = {}
  /\ dependency_graph = EmptyMap
  /\ reverse_dependencies = EmptyMap
  /\ file_analyses = EmptyMap
  /\ global_symbol_table = EmptyMap
  /\ last = Op("init", NoPath)
  /\ steps = 0
  /\ disk_changes = 0
  /\ vfs = NewVFS
  /\ root_scope = <<>>
  /\ lint_engine = FALSE
  /\ template_system = NewTemplateSystem
  /\ object_resolver = NewObjectResolver
  /\ analyze_call = NoAnalyzeCall
  /\ lexer = DMLLexer(<<>>)
  /\ \E items \in ItemTexts : parser = EnhancedDMLParser(items, tokens_of(items))

\* parse: one pass through the body of its while loop
ParseTopLevelDeclaration ==
  /\ ~parser.done
  /\ ~is_at_end(parser)
  /\ LET parsed == parse_top_level_declaration(parser)
     IN parser' =
          IF parsed.decl = <<>> THEN parsed.p
          ELSE [parsed.p EXCEPT
                  !.ast = Append(@, parsed.decl[1]),
                  !.symbols = @ \o extract_symbols_from_declaration(parsed.decl[1])]
  /\ UNCHANGED <<vfs, root_scope, disk, include_paths, compile_commands, file_cache,
                 dependency_graph, reverse_dependencies, file_analyses,
                 global_symbol_table, last, steps, disk_changes, lint_engine,
                 template_system, object_resolver, analyze_call, lexer>>

\* parse: the loop has ended and self.ast is returned
ParseReturn ==
  /\ ~parser.done
  /\ is_at_end(parser)
  /\ parser' = [parser EXCEPT !.done = TRUE]
  /\ UNCHANGED <<vfs, root_scope, disk, include_paths, compile_commands, file_cache,
                 dependency_graph, reverse_dependencies, file_analyses,
                 global_symbol_table, last, steps, disk_changes, lint_engine,
                 template_system, object_resolver, analyze_call, lexer>>

NextParser ==
  \/ ParseTopLevelDeclaration
  \/ ParseReturn

SpecParser == InitParser /\ [][NextParser]_vars

\* ------------------------------------------------------------------------
\* SymbolScope: the scopes of a file and the lookup of the scope at a
\* position. A scope is named by its index in root_scope; its parent is an
\* index, 0 for the file scope; 0 as a result is None
\* ------------------------------------------------------------------------
MaxLines == 2
MaxColumn == 1
MaxScopeSymbols == 2

ZeroPosition(line, column) == [line |-> line, column |-> column]
Positions ==
  {ZeroPosition(line, column) : line \in 0..(MaxLines + 1), column \in 0..MaxColumn}

\* SymbolScope.__init__; the children of a scope are the later scopes that
\* name it as parent, in creation order
SymbolScope(name, span, parent_scope) ==
  [name |-> name, span |-> span, parent |-> parent_scope, symbols |-> <<>>]

\* Range.contains_position
contains_position(span, position) ==
  IF position.line < span.sl \/ position.line > span.el THEN FALSE
  ELSE IF position.line = span.sl /\ position.column < span.sc THEN FALSE
  ELSE IF position.line = span.el /\ position.column > span.ec THEN FALSE
  ELSE TRUE

\* the scope itself, whatever its children are
find_scope_not_descending(scopes, i, j, position) == 0

\* SymbolScope.find_scope_at_position of scope i; find_in_children is its
\* loop over the children, from the scope created as j-th on
RECURSIVE find_scope_at_position(_, _, _)
RECURSIVE find_in_children(_, _, _, _)
find_in_children(scopes, i, j, position) ==
  IF j > Len(scopes) THEN 0
  ELSE IF scopes[j].parent = i /\ find_scope_at_position(scopes, j, position) # 0
       THEN find_scope_at_position(scopes, j, position)
       ELSE find_in_children(scopes, i, j + 1, position)

find_scope_at_position(scopes, i, position) ==
  IF ~contains_position(scopes[i].span, position) THEN 0
  ELSE LET result == find_in_children(scopes, i, i + 1, position)
       IN IF result # 0 THEN result ELSE i

\* AdvancedSymbolTable.get_symbols_in_scope, the loop from the local scope
\* up through the parents
RECURSIVE symbols_up_from(_, _)
symbols_up_from(scopes, current) ==
  IF current = 0 THEN <<>>
  ELSE scopes[current].symbols \o symbols_up_from(scopes, scopes[current].parent)

\* AdvancedSymbolTable.get_symbols_in_scope; no global symbol is registered
get_symbols_in_scope(scopes, position) ==
  LET local_scope == find_scope_at_position(scopes, 1, position)
  IN IF local_scope # 0 THEN symbols_up_from(scopes, local_scope) ELSE <<>>

\* the span IsolatedAnalysis.__init__ gives the file scope of a text that
\* splitlines() cuts into that many lines
file_span(lines) == Span(SrcA, 0, 0, lines, 0)

SOp(op, position, scope, symbols) ==
  [op |-> op, position |-> position, scope |-> scope, symbols |-> symbols]

InitScopes ==
  /\ disk = InitialDisk
  /\ include_paths = <<>>
  /\ compile_commands = <<>>
  /\ file_cache = {}
  /\ dependency_graph = EmptyMap
  /\ reverse_dependencies = EmptyMap
  /\ file_analyses = EmptyMap
  /\ global_symbol_table = EmptyMap
  /\ last = SOp("init", ZeroPosition(0, 0), 0, <<>>)
  /\ steps = 0
  /\ disk_changes = 0
  /\ lint_engine = FALSE
  /\ template_system = NewTemplateSystem
  /\ object_resolver = NewObjectResolver
  /\ analyze_call = NoAnalyzeCall
  /\ lexer = DMLLexer(<<>>)
  /\ parser = EnhancedDMLParser(<<>>, <<>>)
  /\ vfs = NewVFS
  /\ \E lines \in 0..MaxLines : root_scope = <<SymbolScope("file", file_span(lines), 0)>>

\* IsolatedAnalysis.__init__ and, in _parse, initialize_template_scope: the
\* file scope and its child, the scope of the templates
IsolatedAnalysisInit(lines) ==
  /\ root_scope' =
       <<SymbolScope("file", file_span(lines), 0),
         SymbolScope("templates", Span(<<"", "templates">>, 0, 0, 0, 0), 1)>>
  /\ last' = SOp("IsolatedAnalysis", ZeroPosition(0, 0), 0, <<>>)
  /\ UNCHANGED <<disk, include_paths, compile_commands, file_cache,
                 dependency_graph, reverse_dependencies, file_analyses,
                 global_symbol_table, steps, disk_changes, lint_engine,
                 template_system, object_resolver, analyze_call, lexer, parser,
                 vfs>>

\* AdvancedSymbolTable.create_file_scope: a file scope without children
CreateFileScope(lines) ==
  /\ root_scope' = <<SymbolScope("file", file_span(lines), 0)>>
  /\ last' = SOp("create_file_scope", ZeroPosition(0, 0), 0, <<>>)
  /\ UNCHANGED <<disk, include_paths, compile_commands, file_cache,
                 dependency_graph, reverse_dependencies, file_analyses,
                 global_symbol_table, steps, disk_changes, lint_engine,
                 template_system, object_resolver, analyze_call, lexer, parser,
                 vfs>>

\* SymbolScope.add_symbol; the symbols dictionary keeps one entry per name
ScopeAddSymbol(i, name) ==
  /\ i \in 1..Len(root_scope)
  /\ Len(root_scope[i].symbols) < MaxScopeSymbols
  /\ \A k \in 1..Len(root_scope[i].symbols) : root_scope[i].symbols[k] # name
  /\ root_scope' = [root_scope EXCEPT ![i].symbols = Append(@, name)]
  /\ last' = SOp("add_symbol", ZeroPosition(0, 0), i, <<name>>)
  /\ UNCHANGED <<disk, include_paths, compile_commands, file_cache,
                 dependency_graph, reverse_dependencies, file_analyses,
                 global_symbol_table, steps, disk_changes, lint_engine,
                 template_system, object_resolver, analyze_call, lexer, parser,
                 vfs>>

FindScopeAtPosition(position) ==
  /\ last' = SOp("find_scope_at_position", position,
                 find_scope_at_position(root_scope, 1, position), <<>>)
  /\ UNCHANGED <<disk, include_paths, compile_commands, file_cache,
                 dependency_graph, reverse_dependencies, file_analyses,
                 global_symbol_table, steps, disk_changes, lint_engine,
                 template_system, object_resolver, analyze_call, lexer, parser,
                 vfs, root_scope>>

GetSymbolsInScope(position) ==
  /\ last' = SOp("get_symbols_in_scope", position,
                 find_scope_at_position(root_scope, 1, position),
                 get_symbols_in_scope(root_scope, position))
  /\ UNCHANGED <<disk, include_paths, compile_commands, file_cache,
                 dependency_graph, reverse_dependencies, file_analyses,
                 global_symbol_table, steps, disk_changes, lint_engine,
                 template_system, object_resolver, analyze_call, lexer, parser,
                 vfs, root_scope>>

NextScopes ==
  \/ \E lines \in 0..MaxLines : IsolatedAnalysisInit(lines)
  \/ \E lines \in 0..MaxLines : CreateFileScope(lines)
  \/ \E i \in 1..2, name \in {"d", "t"} : ScopeAddSymbol(i, name)
  \/ \E position \in Positions : FindScopeAtPosition(position)
  \/ \E position \in Positions : GetSymbolsInScope(position)

SpecScopes == InitScopes /\ [][NextScopes]_vars

\* ------------------------------------------------------------------------
\* Position: the conversions between zero-indexed and one-indexed positions
\* and the conversion of a position received from the client
\* ------------------------------------------------------------------------
MaxPositionIndex == 7

\* a position of either indexing: at run time Position[ZeroIndexed](...) and
\* Position[OneIndexed](...) build objects of the one class Position
BoundedPositions ==
  {ZeroPosition(line, column) : line \in 0..MaxPositionIndex,
                                column \in 0..MaxPositionIndex}

Max(a, b) == IF a >= b THEN a ELSE b

\* what a conversion gives: the exception it raised, or "" and the position
Returned(position) == [raised |-> "", position |-> position]
Raised(exception) == [raised |-> exception, position |-> ZeroPosition(0, 0)]

\* isinstance(self, Position[ZeroIndexed]) and isinstance(self,
\* Position[OneIndexed]): a subscripted generic is no class, isinstance raises
\* TypeError whatever the object is
isinstance_of_subscripted(position, indexing) == "TypeError"

\* Position.to_one_indexed
to_one_indexed(position) ==
  IF isinstance_of_subscripted(position, "ZeroIndexed") = "TypeError"
  THEN Raised("TypeError")
  ELSE Returned(ZeroPosition(position.line + 1, position.column + 1))

\* Position.to_zero_indexed
to_zero_indexed(position) ==
  IF isinstance_of_subscripted(position, "OneIndexed") = "TypeError"
  THEN Raised("TypeError")
  ELSE Returned(ZeroPosition(Max(0, position.line - 1),
                             Max(0, position.column - 1)))

\* lsp_position_to_zero_indexed; line and character of the client's position
\* are the line and the column here
lsp_position_to_zero_indexed(lsp_pos) ==
  Returned(ZeroPosition(Max(0, lsp_pos.line), Max(0, lsp_pos.column)))

POp(op, position, outcome) ==
  [op |-> op, position |-> position, raised |-> outcome.raised,
   result |-> outcome.position]

InitPositions ==
  /\ disk = InitialDisk
  /\ include_paths = <<>>
  /\ compile_commands = <<>>
  /\ file_cache = {}
  /\ dependency_graph = EmptyMap
  /\ reverse_dependencies = EmptyMap
  /\ file_analyses = EmptyMap
  /\ global_symbol_table = EmptyMap
  /\ steps = 0
  /\ disk_changes = 0
  /\ lint_engine = FALSE
  /\ template_system = NewTemplateSystem
  /\ object_resolver = NewObjectResolver
  /\ analyze_call = NoAnalyzeCall
  /\ lexer = DMLLexer(<<>>)
  /\ parser = EnhancedDMLParser(<<>>, <<>>)
  /\ root_scope = <<>>
  /\ vfs = NewVFS
  /\ \E position \in BoundedPositions :
       last = POp("Position", position, Returned(position))

PositionToOneIndexed(position) ==
  /\ last' = POp("to_one_indexed", position, to_one_indexed(position))
  /\ UNCHANGED <<disk, include_paths, compile_commands, file_cache,
                 dependency_graph, reverse_dependencies, file_analyses,
                 global_symbol_table, steps, disk_changes, lint_engine,
                 template_system, object_resolver, analyze_call, lexer, parser,
                 root_scope, vfs>>

PositionToZeroIndexed(position) ==
  /\ last' = POp("to_zero_indexed", position, to_zero_indexed(position))
  /\ UNCHANGED <<disk, include_paths, compile_commands, file_cache,
                 dependency_graph, reverse_dependencies, file_analyses,
                 global_symbol_table, steps, disk_changes, lint_engine,
                 template_system, object_resolver, analyze_call, lexer, parser,
                 root_scope, vfs>>

LspPositionToZeroIndexed(lsp_pos) ==
  /\ last' = POp("lsp_position_to_zero_indexed", lsp_pos,
                 lsp_position_to_zero_indexed(lsp_pos))
  /\ UNCHANGED <<disk, include_paths, compile_commands, file_cache,
                 dependency_graph, reverse_dependencies, file_analyses,
                 global_symbol_table, steps, disk_changes, lint_engine,
                 template_system, object_resolver, analyze_call, lexer, parser,
                 root_scope, vfs>>

NextPositions ==
  \/ \E position \in BoundedPositions : PositionToOneIndexed(position)
  \/ \E position \in BoundedPositions : PositionToZeroIndexed(position)
  \/ \E lsp_pos \in BoundedPositions : LspPositionToZeroIndexed(lsp_pos)

SpecPositions == InitPositions /\ [][NextPositions]_vars

\* ------------------------------------------------------------------------
\* VFS: the cache of file contents, the files with unsaved changes, and the
\* changes the watcher has queued. vfs.files is what the file loader reads
\* ------------------------------------------------------------------------
MaxQueuedChanges == 1

VFSPaths == {"p.dml", "q.dml"}
VFSContents == {"old", "new"}

\* FileChange
FileChange(path, change_type) == [path |-> path, change_type |-> change_type]

\* what the last operation on the VFS was, what it raised and returned, and
\* unsaved: for each path the content of a write_file that no save_file,
\* remove_file, clear_cache or watcher event for the path has followed
VOp(op, path, content, raised, result, unsaved) ==
  [op |-> op, path |-> path, content |-> content, raised |-> raised,
   result |-> result, unsaved |-> unsaved]

\* VFS.read_file
read_file(v, path) ==
  IF path \in DOMAIN v.file_cache /\ path \notin v.dirty_files
  THEN [vfs |-> v, raised |-> "", result |-> v.file_cache[path]]
  ELSE IF path \notin DOMAIN v.files
  THEN [vfs |-> v, raised |-> "FileNotFoundError", result |-> ""]
  ELSE [vfs |-> [v EXCEPT !.file_cache = Put(@, path, v.files[path]),
                          !.dirty_files = @ \ {path}],
        raised |-> "", result |-> v.files[path]]

\* VFS.write_file
write_file(v, path, content) ==
  [v EXCEPT !.file_cache = Put(@, path, content),
            !.dirty_files = @ \cup {path}]

\* VFS.save_file
save_file(v, path) ==
  IF path \notin DOMAIN v.file_cache
  THEN [vfs |-> v, raised |-> "ValueError"]
  ELSE [vfs |-> [v EXCEPT !.files = Put(@, path, v.file_cache[path]),
                          !.dirty_files = @ \ {path}],
        raised |-> ""]

\* VFS.remove_file
remove_file(v, path) ==
  [v EXCEPT !.file_cache = Drop(@, {path}), !.dirty_files = @ \ {path}]

\* VFS.clear_cache
clear_cache(v) == [v EXCEPT !.file_cache = EmptyMap, !.dirty_files = {}]

\* VFS.process_changes, one pass through its loop with the change it got
process_change(v, change) ==
  IF change.change_type \in {"modified", "deleted"}
  THEN [v EXCEPT !.file_cache = Drop(@, {change.path}),
                 !.dirty_files = @ \ {change.path}]
  ELSE v

InitVFS ==
  /\ disk = InitialDisk
  /\ include_paths = <<>>
  /\ compile_commands = <<>>
  /\ file_cache = {}
  /\ dependency_graph = EmptyMap
  /\ reverse_dependencies = EmptyMap
  /\ file_analyses = EmptyMap
  /\ global_symbol_table = EmptyMap
  /\ last = VOp("init", "", "", "", "", EmptyMap)
  /\ steps = 0
  /\ disk_changes = 0
  /\ lint_engine = FALSE
  /\ template_system = NewTemplateSystem
  /\ object_resolver = NewObjectResolver
  /\ analyze_call = NoAnalyzeCall
  /\ lexer = DMLLexer(<<>>)
  /\ parser = EnhancedDMLParser(<<>>, <<>>)
  /\ root_scope = <<>>
  /\ \E on_disk \in SUBSET VFSPaths :
       vfs = [NewVFS EXCEPT !.files = [path \in on_disk |-> "old"]]

VFSReadFile(path) ==
  /\ LET outcome == read_file(vfs, path)
     IN /\ vfs' = outcome.vfs
        /\ last' = VOp("read_file", path, "", outcome.raised, outcome.result,
                       last.unsaved)
  /\ UNCHANGED <<disk, include_paths, compile_commands, file_cache,
                 dependency_graph, reverse_dependencies, file_analyses,
                 global_symbol_table, steps, disk_changes, lint_engine,
                 template_system, object_resolver, analyze_call, lexer, parser,
                 root_scope>>

VFSWriteFile(path, content) ==
  /\ vfs' = write_file(vfs, path, content)
  /\ last' = VOp("write_file", path, content, "", "",
                 Put(last.unsaved, path, content))
  /\ UNCHANGED <<disk, include_paths, compile_commands, file_cache,
                 dependency_graph, reverse_dependencies, file_analyses,
                 global_symbol_table, steps, disk_changes, lint_engine,
                 template_system, object_resolver, analyze_call, lexer, parser,
                 root_scope>>

VFSSaveFile(path) ==
  /\ LET outcome == save_file(vfs, path)
     IN /\ vfs' = outcome.vfs
        /\ last' = VOp("save_file", path, "", outcome.raised, "",
                       Drop(last.unsaved, {path}))
  /\ UNCHANGED <<disk, include_paths, compile_commands, file_cache,
                 dependency_graph, reverse_dependencies, file_analyses,
                 global_symbol_table, steps, disk_changes, lint_engine,
                 template_system, object_resolver, analyze_call, lexer, parser,
                 root_scope>>

VFSRemoveFile(path) ==
  /\ vfs' = remove_file(vfs, path)
  /\ last' = VOp("remove_file", path, "", "", "", Drop(last.unsaved, {path}))
  /\ UNCHANGED <<disk, include_paths, compile_commands, file_cache,
                 dependency_graph, reverse_dependencies, file_analyses,
                 global_symbol_table, steps, disk_changes, lint_engine,
                 template_system, object_resolver, analyze_call, lexer, parser,
                 root_scope>>

VFSClearCache ==
  /\ vfs' = clear_cache(vfs)
  /\ last' = VOp("clear_cache", "", "", "", "", EmptyMap)
  /\ UNCHANGED <<disk, include_paths, compile_commands, file_cache,
                 dependency_graph, reverse_dependencies, file_analyses,
                 global_symbol_table, steps, disk_changes, lint_engine,
                 template_system, object_resolver, analyze_call, lexer, parser,
                 root_scope>>

\* another program writes or deletes a watched file;
\* FileSystemWatcher.on_modified, on_created and on_deleted queue the change
WatcherEvent(path, change_type, content) ==
  /\ Len(vfs.change_queue) < MaxQueuedChanges
  /\ change_type = "created" => path \notin DOMAIN vfs.files
  /\ change_type # "created" => path \in DOMAIN vfs.files
  /\ vfs' = [vfs EXCEPT
               !.files = IF change_type = "deleted" THEN Drop(@, {path})
                         ELSE Put(@, path, content),
               !.change_queue = Append(@, FileChange(path, change_type))]
  /\ last' = VOp("watcher_event", path, content, "", "",
                 Drop(last.unsaved, {path}))
  /\ UNCHANGED <<disk, include_paths, compile_commands, file_cache,
                 dependency_graph, reverse_dependencies, file_analyses,
                 global_symbol_table, steps, disk_changes, lint_engine,
                 template_system, object_resolver, analyze_call, lexer, parser,
                 root_scope>>

VFSProcessChange ==
  /\ vfs.change_queue # <<>>
  /\ LET change == Head(vfs.change_queue)
     IN /\ vfs' = [process_change(vfs, change) EXCEPT !.change_queue = Tail(@)]
        /\ last' = VOp("process_changes", change.path, "", "", "",
                       Drop(last.unsaved, {change.path}))
  /\ UNCHANGED <<disk, include_paths, compile_commands, file_cache,
                 dependency_graph, reverse_dependencies, file_analyses,
                 global_symbol_table, steps, disk_changes, lint_engine,
                 template_system, object_resolver, analyze_call, lexer, parser,
                 root_scope>>

NextVFS ==
  \/ \E path \in VFSPaths : VFSReadFile(path)
  \/ \E path \in VFSPaths, content \in VFSContents : VFSWriteFile(path, content)
  \/ \E path \in VFSPaths : VFSSaveFile(path)
  \/ \E path \in VFSPaths : VFSRemoveFile(path)
  \/ VFSClearCache
  \/ \E path \in VFSPaths, change_type \in {"created", "modified", "deleted"},
        content \in VFSContents : WatcherEvent(path, change_type, content)
  \/ VFSProcessChange

SpecVFS == InitVFS /\ [][NextVFS]_vars

\* ------------------------------------------------------------------------
\* Properties
\* ------------------------------------------------------------------------
\* the files that import a file of S through any number of recorded reverse
\* edges, with S itself: the least fixpoint, computed breadth first
RECURSIVE importers_closure(_, _)
importers_closure(rev, S) ==
  LET grown == S \cup UNION {get_dependents(rev, f) : f \in S}
  IN IF grown = S THEN S ELSE importers_closure(rev, grown)

\* the same closure read off the forward edges: the files from which a file
\* of S is reached through recorded imports, with S itself
RECURSIVE forward_importers_closure(_, _)
forward_importers_closure(fwd, S) ==
  LET grown == S \cup {g \in DOMAIN fwd : fwd[g] \cap S # {}}
  IN IF grown = S THEN S ELSE forward_importers_closure(fwd, grown)

\* the reverse edges are the inverse of the forward edges
edges_consistent(fwd, rev) ==
  \A a \in Paths, b \in Paths :
     (a \in get_dependents(rev, b)) = (b \in get_dependencies(fwd, a))

\* C1: invalidate(F) returns exactly F together with every file that imports F
\* through one or more recorded reverse edges (cycles included), which are the
\* transitive importers by the forward edges whenever the two directions of the
\* graph agree, and when it returns none of the returned files has an analysis
\* in the cache.
C1_InvalidateReturnsClosure ==
  last.op = "invalidate_file" =>
    /\ last.files = importers_closure(reverse_dependencies, {last.file})
    /\ edges_consistent(dependency_graph, reverse_dependencies)
       => last.files = forward_importers_closure(dependency_graph, {last.file})
    /\ last.files \cap DOMAIN file_analyses = {}

\* an invalidation that returned a file importing F only through another file
C1_Witness ==
  /\ last.op = "invalidate_file"
  /\ edges_consistent(dependency_graph, reverse_dependencies)
  /\ \E G \in last.files :
       /\ G # last.file
       /\ G \notin get_dependents(reverse_dependencies, last.file)

\* C2: invalidate(F) leaves the cached analysis of every file outside the
\* returned set exactly as it was: present if it was present, with the same
\* symbols, definitions and diagnostics.
C2_InvalidateFrame ==
  [][last'.op = "invalidate_file" =>
       \A H \in Paths \ last'.files :
          /\ (H \in DOMAIN file_analyses') = (H \in DOMAIN file_analyses)
          /\ H \in DOMAIN file_analyses => file_analyses'[H] = file_analyses[H]]_vars

\* an invalidation that dropped an analysis and left another file's in the cache
C2_Witness ==
  /\ last.op = "invalidate_file"
  /\ last.dropped # {}
  /\ \E H \in DOMAIN file_analyses : H \notin last.files

C4_AnalyzeDropsImporters ==
  [][(last'.op = "analyze_file" /\ last'.file \in DOMAIN file_analyses)
     => \A G \in importers_closure(reverse_dependencies, {last'.file}) \ {last'.file} :
          G \in DOMAIN file_analyses' => G \in last'.ran]_vars

\* the definitions of a name held by the analyses in the cache, one per
\* defining file
definitions_in_cache(analyses, symbol_name) ==
  {analyses[f].symbol_definitions[symbol_name] :
     f \in {g \in DOMAIN analyses : symbol_name \in DOMAIN analyses[g].symbol_definitions}}

\* C5 (as stated): definitions-of(name) returns exactly the definitions of the
\* name held by the analyses currently in the cache, none from a dropped file.
C5_DefinitionsMatchCache ==
  last.op = "find_symbol_definitions" =>
    last.defs = definitions_in_cache(file_analyses, last.name)

\* the declarations of a text that bind a name in the file scope
declares_in_file_scope(d) == d.kind \in {"device", "template", "parameter"}

\* the names a text declares in a scope other than the one asked about
names_of_templates_params(text) ==
  UNION {{text[i].params[j] : j \in 1..Len(text[i].params)} : i \in 1..Len(text)}
names_of_file_scope(text) ==
  {text[i].name : i \in {k \in 1..Len(text) : declares_in_file_scope(text[k])}}

has_error(errors, kind, arg, span) ==
  \E k \in 1..Len(errors) :
     errors[k].kind = kind /\ errors[k].arg = arg /\ errors[k].span = span

\* C6 (as stated): of the declarations of one name in one scope of a file (the
\* file scope, or the body of one template), each one after the first yields a
\* DuplicateSymbol error located at it, and the definition bound to the name
\* is the first declaration.
C6_FirstBindingWins ==
  last.op = "analyze_file" =>
    LET F == last.file
        text == file_analyses[F].content
        defs == file_analyses[F].symbol_definitions
    IN /\ \A i \in 1..Len(text), j \in 1..Len(text) :
            (/\ i < j
             /\ declares_in_file_scope(text[i]) /\ declares_in_file_scope(text[j])
             /\ text[i].name = text[j].name
             /\ \A k \in 1..(i - 1) :
                  ~(declares_in_file_scope(text[k]) /\ text[k].name = text[i].name))
            => /\ has_error(last.errors, "duplicate_symbol", text[j].name,
                            DeclSpan(F, j, text[j]))
               /\ text[i].name \notin names_of_templates_params(text)
                  => /\ text[i].name \in DOMAIN defs
                     /\ defs[text[i].name].span = DeclSpan(F, i, text[i])
       /\ \A i \in 1..Len(text) :
            \A p \in 1..Len(text[i].params), q \in 1..Len(text[i].params) :
              (/\ p < q
               /\ text[i].params[p] = text[i].params[q]
               /\ \A k \in 1..(p - 1) : text[i].params[k] # text[i].params[p])
              => /\ has_error(last.errors, "duplicate_symbol", text[i].params[q],
                              ParamSpan(F, i, q))
                 /\ (/\ text[i].params[p] \notin names_of_file_scope(text)
                     /\ \A m \in (1..Len(text)) \ {i} :
                          \A k \in 1..Len(text[m].params) :
                             text[m].params[k] # text[i].params[p])
                    => /\ text[i].params[p] \in DOMAIN defs
                       /\ defs[text[i].params[p]].span = ParamSpan(F, i, p)

\* C7 (as stated): a device declaration at any position other than the second,
\* the first included, yields the SemanticError 'Device declaration must be
\* second statement in file' at the device declaration, and its Device symbol
\* is still produced.
C7_DeviceMustBeSecond ==
  last.op = "analyze_file" =>
    LET F == last.file
        text == file_analyses[F].content
    IN \A i \in 1..Len(text) :
         (text[i].kind = "device" /\ i # 2)
         => /\ has_error(last.errors, "semantic_error", "", DeclSpan(F, i, text[i]))
            /\ \E k \in 1..Len(last.errors) :
                  /\ last.errors[k].message = DeviceSecondMsg
                  /\ last.errors[k].span = DeclSpan(F, i, text[i])
            /\ \E k \in 1..Len(file_analyses[F].symbols) :
                  /\ file_analyses[F].symbols[k].kind = "Device"
                  /\ file_analyses[F].symbols[k].name = text[i].name

\* an import names no existing file: neither an include path configured for
\* the importing file nor the file's own directory holds it
unresolvable(dsk, commands, includes, file_path, import_name) ==
  /\ \A k \in 1..Len(get_include_paths_for_file(commands, includes, file_path)) :
        ~exists(dsk, join(get_include_paths_for_file(commands, includes, file_path)[k],
                          import_name))
  /\ ~exists(dsk, join(parent(file_path), import_name))

\* C8 (as stated): for every import of F that resolves to no existing file,
\* analyze(F) records an ImportError 'Cannot resolve import <name>' whose span
\* is the span of the import statement.
C8_ImportErrorAtImport ==
  last.op = "analyze_file" =>
    LET F == last.file
        text == file_analyses[F].content
    IN \A i \in 1..Len(text) :
         (/\ text[i].kind = "import"
          /\ unresolvable(disk, compile_commands, include_paths, F, text[i].name))
         => has_error(last.errors, "import_error", text[i].name,
                      DeclSpan(F, i, text[i]))

\* the file an import names when the include paths configured for the
\* importing file are tried in order before the file's own directory
include_first_target(dsk, commands, includes, file_path, import_name) ==
  LET in_include_paths ==
        first_existing(dsk, get_include_paths_for_file(commands, includes, file_path),
                       import_name)
  IN IF in_include_paths # NoPath THEN in_include_paths
     ELSE IF exists(dsk, join(parent(file_path), import_name))
          THEN join(parent(file_path), import_name)
          ELSE NoPath

include_first_targets(dsk, commands, includes, file_path, imports) ==
  {include_first_target(dsk, commands, includes, file_path, imports[k])
     : k \in 1..Len(imports)} \ {NoPath}

\* C9 (as stated): the dependencies recorded for a file when it is read are
\* the files its imports name with the include paths tried in their configured
\* order before the file's own directory; a name found in both places is
\* recorded as the include-path file.
C9_IncludePathsBeforeOwnDirectory ==
  [][(last'.op = "get_file_info" /\ last'.file \in file_cache' \ file_cache)
     => dependency_graph'[last'.file] =
          include_first_targets(disk, compile_commands, include_paths, last'.file,
                                extract_imports(disk[last'.file]))]_vars

\* the files reached from the imports of a text through the imports of the
\* files on disk, each import naming its include-first target
RECURSIVE imported_closure(_, _, _, _)
imported_closure(dsk, commands, includes, S) ==
  LET grown == S \cup UNION {include_first_targets(dsk, commands, includes, f,
                                                   extract_imports(dsk[f]))
                               : f \in {g \in S : readable(dsk, g)}}
  IN IF grown = S THEN S ELSE imported_closure(dsk, commands, includes, grown)

transitive_imports(dsk, commands, includes, file_path, content) ==
  imported_closure(dsk, commands, includes,
    include_first_targets(dsk, commands, includes, file_path, extract_imports(content)))

\* C10 (as stated): when analyze(F, text) has returned, every file F imports
\* directly or transitively that resolves to a readable file has an analysis
\* in the cache.
C10_DependenciesAnalyzed ==
  last.op = "analyze_file" =>
    \A G \in transitive_imports(disk, compile_commands, include_paths, last.file,
                                 file_analyses[last.file].content) :
       readable(disk, G) => G \in DOMAIN file_analyses

\* C11 (as stated): when the read of a dependency of F fails while F is
\* analyzed, analyze(F) still stores F's analysis and records the failure as a
\* diagnostic on F, a diagnostic that names the dependency.
C11_ReadFailureIsDiagnostic ==
  [][last'.op = "analyze_file" =>
       \A dep \in get_dependencies(dependency_graph, last'.file) :
          (dep \notin DOMAIN file_analyses /\ dep # last'.file /\ ~readable(disk, dep))
          => /\ last'.file \in DOMAIN file_analyses'
             /\ \E k \in 1..Len(last'.errors) :
                   last'.errors[k].arg \in {dep, dep[2]}]_vars

\* C12: analyze(F, T) immediately followed by analyze(F, T) with the same text
\* yields for F the same symbols, the same definitions and the same
\* diagnostics, returned and cached, as the first call did.
C12_AnalyzeIdempotent ==
  [][(/\ last.op = "analyze_file"
      /\ last'.op = "analyze_file"
      /\ last'.file = last.file
      /\ file_analyses'[last'.file].content = file_analyses[last.file].content)
     => /\ file_analyses'[last'.file].symbols = file_analyses[last.file].symbols
        /\ file_analyses'[last'.file].symbol_definitions
             = file_analyses[last.file].symbol_definitions
        /\ file_analyses'[last'.file].errors = file_analyses[last.file].errors
        /\ last'.errors = last.errors]_vars

\* a file analyzed twice in a row with one text that has diagnostics
C12_Witness ==
  /\ last.op = "analyze_file"
  /\ last.again
  /\ last.errors # <<>>

\* C13: once analyze(F) has returned its error list, a diagnostics query for F
\* returns that list, and returns it again on every later query, until F is
\* analyzed again or invalidated; a query changes neither the cache nor the
\* global table, and the analysis and publication of another file leaves the
\* list of F as it was
is_query(op) ==
  op \in {"get_diagnostics_for_file", "get_all_symbols_in_file",
          "find_symbol_definitions"}
C13_DiagnosticsStable ==
  [][/\ is_query(last'.op) => /\ file_analyses' = file_analyses
                              /\ global_symbol_table' = global_symbol_table
     /\ (/\ last'.op = "get_diagnostics_for_file"
         /\ last.op \in {"analyze_file", "get_diagnostics_for_file"}
         /\ last.file = last'.file)
        => last'.errors = last.errors
     /\ last'.op = "analyze_file"
        => \A F \in (DOMAIN file_analyses) \ {last'.file} :
              get_diagnostics_for_file(file_analyses', F)
                = get_diagnostics_for_file(file_analyses, F)]_vars


\* C14: every symbol and every error held by the analysis of a file F carries
\* a span whose file path is F, the ImportErrors and the symbols and errors
\* of the template system included
C14_SpansNameTheirFile ==
  \A F \in DOMAIN file_analyses :
     /\ \A k \in 1..Len(file_analyses[F].symbols) :
           file_analyses[F].symbols[k].span.file = F
     /\ \A k \in 1..Len(file_analyses[F].errors) :
           file_analyses[F].errors[k].span.file = F


\* C15: once resolve_template(T) has returned, a resolved template or None,
\* every later resolve_template(T) with no add_template in between returns
\* the same result, and no template enters the visiting set during it
C15_ResolveMemoized ==
  [][(last'.op = "resolve_template" /\ last'.name \in DOMAIN last.outcome)
     => /\ last'.result = last.outcome[last'.name]
        /\ last'.visited = {}]_vars

\* a template that could not be resolved is resolved again, after a template
\* that could be: both outcomes are on record
C15_Witness ==
  /\ last.op = "resolve_template"
  /\ last.again
  /\ last.result = <<>>
  /\ \E n \in DOMAIN last.outcome : last.outcome[n] # <<>>


\* the templates that the texts of the registered declarations reach from a
\* template through one or more "is"
RECURSIVE declared_ancestors_from(_, _)
declared_ancestors_from(templates, names) ==
  LET more == UNION {{declared_parents(templates[n])[k] :
                        k \in 1..Len(declared_parents(templates[n]))} :
                     n \in names \cap DOMAIN templates}
  IN IF more \subseteq names THEN names
     ELSE declared_ancestors_from(templates, names \cup more)

declared_ancestors(templates, template_name) ==
  IF template_name \notin DOMAIN templates THEN {}
  ELSE LET parents == {declared_parents(templates[template_name])[k] :
                         k \in 1..Len(declared_parents(templates[template_name]))}
       IN declared_ancestors_from(templates, parents)

on_declared_cycle(templates, template_name) ==
  template_name \in declared_ancestors(templates, template_name)

\* C16 (as stated): when the registered declarations extend each other in a
\* cycle (a is b, b is a), resolving a template on the cycle records a
\* circular-dependency error at the declaration of that template and returns
\* a sentinel resolved template without parameters and without methods.
C16_CycleIsReported ==
  [][(/\ last'.op = "resolve_template"
      /\ on_declared_cycle(template_system.templates, last'.name))
     => /\ \E k \in 1..Len(template_system'.resolver_errors) :
             /\ k > Len(template_system.resolver_errors)
             /\ template_system'.resolver_errors[k].message
                  = "Circular template dependency detected"
             /\ template_system'.resolver_errors[k].span
                  = template_system.templates[last'.name].span
        /\ Len(last'.result) = 1
        /\ last'.result[1].resolved_parameters = <<>>
        /\ last'.result[1].resolved_methods = <<>>]_vars


\* C17 (as stated): after add_template registered a declaration of T again,
\* the resolved form memoized for T, and for every template that descends
\* from T, is dropped: the next resolve_template of such a template returns
\* the form computed from the declarations registered now.
C17_RedeclarationInvalidates ==
  [][(last'.op = "resolve_template" /\ last'.name \in DOMAIN template_system.templates)
     => LET fresh == resolve_template_recursive(template_system.templates,
                                                last'.name, {})
        IN ~fresh.raised => last'.result = <<fresh.value>>]_vars


\* C18 (as stated): in the method-resolution order of every resolved template
\* R, R comes before each of its parents, and every ancestor of R (a parent,
\* or an ancestor of a parent) occurs exactly once.
positions(order, name) == {k \in 1..Len(order) : order[k] = name}
C18_LinearizationComplete ==
  \A n \in DOMAIN template_system.resolved_templates :
     LET R == template_system.resolved_templates[n]
         order == R.resolution_order
         declaration == R.original_declaration
         ancestors ==
           declared_ancestors(Put(template_system.templates, n, declaration), n)
     IN \* every template R descends from is registered
        ancestors \subseteq DOMAIN template_system.templates
        => /\ Cardinality(positions(order, n)) = 1
           /\ \A k \in 1..Len(declared_parents(declaration)) :
                 \E i \in positions(order, n),
                    j \in positions(order, declared_parents(declaration)[k]) : i < j
           /\ \A A \in ancestors \ {n} : Cardinality(positions(order, A)) = 1


\* the parameters and the methods a resolved template offers, as declarations
parameters_offered(template) ==
  [k \in 1..Len(template.resolved_parameters) |->
     [name |-> template.resolved_parameters[k].name,
      span |-> template.resolved_parameters[k].span]]
methods_offered(template) ==
  [k \in 1..Len(template.resolved_methods) |->
     template.resolved_methods[k].declaration]

names_declared(declarations) ==
  {declarations[k].name : k \in 1..Len(declarations)}
elements(s) == {s[k] : k \in 1..Len(s)}
added_to(own, merged) == SubSeq(merged, Len(own) + 1, Len(merged))

\* what the applied templates offer under names the device does not declare
offered_undeclared(own, offers) ==
  UNION {{d \in elements(offers[k]) : d.name \notin names_declared(own)} :
         k \in 1..Len(offers)}

\* the same, less what a template applied earlier already offers by name
offered_undeclared_first(own, offers) ==
  UNION {{d \in elements(offers[k]) :
            /\ d.name \notin names_declared(own)
            /\ \A j \in 1..(k - 1) : d.name \notin names_declared(offers[j])} :
         k \in 1..Len(offers)}

\* C19 (amended): process_device returns an enhanced device whose parameters
\* and methods are the device's own declarations, unchanged and first,
\* followed by exactly those parameters and methods of the applied templates
\* whose names neither the device nor a template applied before declares,
\* each once; name, span and template list are the device's.
C19_ApplyAddsUndeclaredOnce ==
  [][last'.op = "process_device"
     => LET device == last'.device[1]
            enhanced == last'.enhanced_device[1]
            applied == last'.applied
            parameter_offers == [k \in 1..Len(applied) |-> parameters_offered(applied[k])]
            method_offers == [k \in 1..Len(applied) |-> methods_offered(applied[k])]
            more_parameters == added_to(device.parameters, enhanced.parameters)
            more_methods == added_to(device.methods, enhanced.methods)
        IN /\ enhanced.name = device.name
           /\ enhanced.span = device.span
           /\ enhanced.templates = device.templates
           /\ SubSeq(enhanced.parameters, 1, Len(device.parameters)) = device.parameters
           /\ SubSeq(enhanced.methods, 1, Len(device.methods)) = device.methods
           /\ elements(more_parameters)
                = offered_undeclared_first(device.parameters, parameter_offers)
           /\ Cardinality(elements(more_parameters)) = Len(more_parameters)
           /\ elements(more_methods)
                = offered_undeclared_first(device.methods, method_offers)
           /\ Cardinality(elements(more_methods)) = Len(more_methods)]_vars

\* a device with a parameter and a method of its own took two templates that
\* both offer a parameter the device lacks, one of them also a parameter the
\* device declares
C19_Witness ==
  /\ last.op = "process_device"
  /\ Len(last.applied) = 2
  /\ last.device[1].parameters # <<>>
  /\ last.device[1].methods # <<>>
  /\ \E d1 \in elements(parameters_offered(last.applied[1])),
        d2 \in elements(parameters_offered(last.applied[2])) :
        d1.name = d2.name /\ d1.name \notin names_declared(last.device[1].parameters)
  /\ \E d \in elements(parameters_offered(last.applied[2])) :
        d.name \in names_declared(last.device[1].parameters)
  /\ Len(last.enhanced_device[1].parameters) > Len(last.device[1].parameters)

\* C19 (as stated): the enhanced device has the device's own declarations,
\* unchanged, plus exactly those parameters and methods of the applied
\* templates whose names the device does not itself declare.
C19_ApplyAddsUndeclared ==
  [][last'.op = "process_device"
     => LET device == last'.device[1]
            enhanced == last'.enhanced_device[1]
            applied == last'.applied
            parameter_offers == [k \in 1..Len(applied) |-> parameters_offered(applied[k])]
            method_offers == [k \in 1..Len(applied) |-> methods_offered(applied[k])]
        IN /\ SubSeq(enhanced.parameters, 1, Len(device.parameters)) = device.parameters
           /\ SubSeq(enhanced.methods, 1, Len(device.methods)) = device.methods
           /\ elements(added_to(device.parameters, enhanced.parameters))
                = offered_undeclared(device.parameters, parameter_offers)
           /\ elements(added_to(device.methods, enhanced.methods))
                = offered_undeclared(device.methods, method_offers)]_vars


\* the levels of a device: the registered templates it applies, then itself
levels(r, device) ==
  {r.template_registry[n] :
     n \in elements(device.templates) \cap DOMAIN r.template_registry}
  \cup {device}

declared_without_body(level) ==
  {m.name : m \in {c \in elements(level.children) : ~c.body /\ ~c.is_extern}}

declared_with_body(level) ==
  {m.name : m \in {c \in elements(level.children) : c.body}}

\* the abstract methods of a device that no level implements
unimplemented(r, device) ==
  UNION {declared_without_body(l) : l \in levels(r, device)}
  \ UNION {declared_with_body(l) : l \in levels(r, device)}

\* every error the resolution of the last device produced, followed by what
\* the method registry answers when asked about that device
errors_about_last_device ==
  object_resolver.errors \o object_resolver.registry_errors
  \o last.resolved_obj[1].errors
  \o check_abstract_methods(object_resolver, last.name)

\* C20: once a device is resolved, each bodyless method that no applied
\* template and not the device itself implements is reported by a semantic
\* error "abstract method not implemented" whose span is the device's span
C20_AbstractReportedAtDevice ==
  (last.op = "resolve_device" /\ ~last.cached) =>
    \A name \in unimplemented(object_resolver, last.device[1]) :
       \E e \in elements(errors_about_last_device) :
          /\ e.kind = "semantic_error"
          /\ e.message = AbstractNotImplementedMsg
          /\ e.arg[1] = name
          /\ e.span = last.device[1].span


\* the errors of one complete analyze_file of a text of a file
complete_errors(file_path, content) ==
  IsolatedAnalysis(file_path, content).errors
  \o import_errors(disk, compile_commands, include_paths, file_path,
                   IsolatedAnalysis(file_path, content).imports)

\* C21: the diagnostics a query returns for a file that analyze_file was
\* called for are those of one complete analysis of the text the cache holds
\* for the file, also when the query runs while a thread is inside
\* analyze_file
C21_QuerySeesCompleteAnalysis ==
  (/\ last.op = "get_diagnostics_for_file"
   /\ last.file \in analyze_call.analyzed
   /\ last.file \in DOMAIN file_analyses) =>
    last.errors = complete_errors(last.file, file_analyses[last.file].content)


\* a character at which no token, no white space and no comment starts
starts_no_token(char) ==
  /\ ~isspace(char)
  /\ ~isalnum(char)
  /\ char \notin {"\"", "/", "*", "="}

\* C22: tokenize ends (each pass through its loop reads at least one
\* character and never reads past the end of the text), the tokens it returns
\* end with an EOF token and hold no other EOF token, and a token that starts
\* at a character that starts no valid token is an Invalid token of exactly
\* that character, after which the next token starts no earlier than at the
\* next character
C22_TokenizeEndsWithEOF ==
  /\ lexer.iterations <= lexer.position
  /\ lexer.position <= Len(lexer.content)
  /\ \A k \in 1..Len(lexer.tokens) :
        (lexer.tokens[k].type = "EOF") <=> (lexer.done /\ k = Len(lexer.tokens))
  /\ lexer.done => /\ lexer.tokens # <<>>
                   /\ lexer.position = Len(lexer.content)
  /\ \A k \in 1..Len(lexer.tokens) :
        LET token == lexer.tokens[k]
        IN /\ token.type # "EOF" =>
                ((starts_no_token(char_at(lexer.content, token.start)))
                   <=> token.type = "INVALID")
           /\ token.type = "INVALID" =>
                /\ token.value = <<char_at(lexer.content, token.start)>>
                /\ token.end = token.start + 1
           /\ k < Len(lexer.tokens) => token.end <= lexer.tokens[k + 1].start

\* tokenize has returned tokens in which an Invalid token is followed by a
\* token that is not the EOF token
C22_Witness ==
  /\ lexer.done
  /\ \E k \in 1..Len(lexer.tokens) :
        /\ lexer.tokens[k].type = "INVALID"
        /\ k + 1 < Len(lexer.tokens)
        /\ lexer.tokens[k + 1].type = "IDENTIFIER"


\* the k-th declaration of the text has yielded its symbol: a symbol of its
\* name and kind whose span starts at its first token
yields_symbol(p, k) ==
  \E i \in 1..Len(p.symbols) :
    /\ p.symbols[i].name = p.items[k].name
    /\ p.symbols[i].kind = p.items[k].kind
    /\ p.symbols[i].span.sc = tokens_before(p.items, k)

\* C23: when parse has returned, every well-formed top-level declaration
\* that follows a faulty one has been parsed and has yielded its symbol
C23_LaterDeclarationsStillParsed ==
  parser.done =>
    \A k \in 1..Len(parser.items) :
      (/\ parser.items[k].well_formed
       /\ \E j \in 1..(k - 1) : ~parser.items[j].well_formed)
      => yields_symbol(parser, k)


\* position q of the token list is a synchronization point: the end of the
\* input, the position just after a ';', or the position of a keyword that
\* starts a declaration
synchronization_point(p, q) ==
  \/ q + 1 >= Len(p.tokens)
  \/ (q >= 1 /\ p.tokens[q].type = "SEMICOLON")
  \/ p.tokens[q + 1].type \in
       {"DML", "DEVICE", "TEMPLATE", "BANK", "REGISTER", "FIELD", "METHOD",
        "PARAMETER", "IMPORT"}

\* C28: every recovery after a syntax error leaves the parser at a
\* synchronization point, the first one after the unexpected token, and the
\* parser goes on from there and never goes back
C28_RecoveryStopsAtSynchronizationPoint ==
  \A i \in 1..Len(parser.recoveries) :
    LET r == parser.recoveries[i] IN
      /\ synchronization_point(parser, r.to)
      /\ r.to >= r.from
      /\ \A q \in (r.from + 1)..(r.to - 1) : ~synchronization_point(parser, q)
      /\ i < Len(parser.recoveries) => parser.recoveries[i + 1].from >= r.to
      /\ parser.position >= r.to

\* parse has returned; one recovery skipped tokens up to the position after a
\* ';' and another skipped tokens up to a keyword that is not the end
C28_Witness ==
  /\ parser.done
  /\ \E i \in 1..Len(parser.recoveries) :
       LET r == parser.recoveries[i] IN
         /\ r.to > r.from + 1
         /\ parser.tokens[r.to].type = "SEMICOLON"
  /\ \E i \in 1..Len(parser.recoveries) :
       LET r == parser.recoveries[i] IN
         /\ r.to > r.from + 1
         /\ r.to + 1 < Len(parser.tokens)
         /\ parser.tokens[r.to].type # "SEMICOLON"
         /\ parser.tokens[r.to + 1].type \in {"DEVICE", "TEMPLATE", "PARAMETER"}


\* the scopes whose span contains the position
scopes_containing(scopes, position) ==
  {i \in 1..Len(scopes) : contains_position(scopes[i].span, position)}

\* the number of scopes above scope i
RECURSIVE scope_depth(_, _)
scope_depth(scopes, i) ==
  IF scopes[i].parent = 0 THEN 0 ELSE 1 + scope_depth(scopes, scopes[i].parent)

\* scope i is a deepest one among the scopes that contain the position
deepest_containing(scopes, i, position) ==
  /\ i \in scopes_containing(scopes, position)
  /\ \A j \in scopes_containing(scopes, position) :
       scope_depth(scopes, j) <= scope_depth(scopes, i)

\* C24: find_scope_at_position returns the deepest scope whose span contains
\* the position, and the file scope when no scope contains it
C24_DeepestScopeOrFileScope ==
  last.op = "find_scope_at_position" =>
    IF scopes_containing(root_scope, last.position) = {}
    THEN last.scope = 1
    ELSE deepest_containing(root_scope, last.scope, last.position)

\* C24 as the code has it: find_scope_at_position returns the deepest scope
\* whose span contains the position, which is the file scope when no scope
\* below it contains the position, and no scope at all when the position is
\* outside the span of the file scope
C24_DeepestScopeOrNone ==
  last.op = "find_scope_at_position" =>
    IF scopes_containing(root_scope, last.position) = {}
    THEN last.scope = 0
    ELSE deepest_containing(root_scope, last.scope, last.position)

\* the file scope and the scope of the templates both contain the position
\* that was asked for, and the scope of the templates was returned
C24_Witness ==
  /\ last.op = "find_scope_at_position"
  /\ scopes_containing(root_scope, last.position) = {1, 2}
  /\ last.scope = 2


\* C25: converting an internal position outward gives the position with one
\* added to line and to column, converting a boundary position inward gives
\* the position with one subtracted from each, and converting outward and
\* then inward gives the position back
C25_BoundaryConversionsAreInverse ==
  /\ last.op = "to_one_indexed" =>
       /\ last.raised = ""
       /\ last.result = ZeroPosition(last.position.line + 1,
                                     last.position.column + 1)
       /\ lsp_position_to_zero_indexed(last.result) = Returned(last.position)
  /\ (/\ last.op = "lsp_position_to_zero_indexed"
      /\ last.position.line >= 1
      /\ last.position.column >= 1) =>
       /\ last.raised = ""
       /\ last.result = ZeroPosition(last.position.line - 1,
                                     last.position.column - 1)


\* C26: after any sequence of reads, re-reads and invalidations the reverse
\* edges are exactly the inverse of the forward edges: A is among the
\* dependents of B if and only if B is among the dependencies of A
C26_ReverseEdgesAreInverse ==
  edges_consistent(dependency_graph, reverse_dependencies)


\* C29: a read_file of a path whose last write_file has been followed by no
\* save_file, remove_file, clear_cache or watcher event for the path returns
\* the content that was written, and the path is still dirty
C29_UnsavedEditSurvivesRead ==
  (last.op = "read_file" /\ last.path \in DOMAIN last.unsaved) =>
    /\ last.raised = ""
    /\ last.result = last.unsaved[last.path]
    /\ last.path \in vfs.dirty_files


\* the places in the linearization of the templates that declare a method
\* of that name
definers(templates, linearization, method_name) ==
  {k \in 1..Len(linearization) :
     /\ linearization[k] \in DOMAIN templates
     /\ \E j \in 1..Len(templates[linearization[k]].methods) :
          templates[linearization[k]].methods[j].name = method_name}

\* the least number of a non-empty set of numbers
least(S) == CHOOSE k \in S : \A j \in S : k <= j

\* C27: when resolve_template computes the resolved form of a template whose
\* declared parents are all registered, every method that two or more
\* templates of the linearization (the template, then its declared parents in
\* order) declare is resolved to the one of the template that comes first
C27_MoreSpecificMethodWins ==
  [][(/\ last'.op = "resolve_template"
      /\ last'.name \in DOMAIN template_system.templates
      /\ last'.name \notin DOMAIN template_system.resolved_templates
      /\ Len(last'.result) = 1)
     => LET templates == template_system.templates
            declaration == templates[last'.name]
            linearization == <<last'.name>> \o declared_parents(declaration)
            resolved == last'.result[1].resolved_methods
        IN (\A k \in 1..Len(linearization) : linearization[k] \in DOMAIN templates)
           => \A method_name \in {"m", "n"} :
                 Cardinality(definers(templates, linearization, method_name)) >= 2
                 => \E i \in 1..Len(resolved) :
                       /\ resolved[i].name = method_name
                       /\ resolved[i].source_template =
                            linearization[least(definers(templates, linearization,
                                                         method_name))]]_vars


\* every name the text declares, in the file scope or in the body of a
\* template, is declared once in the whole text
every_declared_name_unique(text) ==
  /\ \A i \in 1..Len(text), j \in 1..Len(text) :
       (i # j /\ declares_in_file_scope(text[i]) /\ declares_in_file_scope(text[j]))
       => text[i].name # text[j].name
  /\ \A i \in 1..Len(text), j \in 1..Len(text) :
       \A p \in 1..Len(text[i].params), q \in 1..Len(text[j].params) :
          (i # j \/ p # q) => text[i].params[p] # text[j].params[q]
  /\ names_of_file_scope(text) \cap names_of_templates_params(text) = {}

\* C30: the analysis of a text in which every declared name is unique has no
\* DuplicateSymbol error, also when a device of the text applies templates
C30_TemplatesAddNoDuplicates ==
  (last.op = "analyze_file"
   /\ every_declared_name_unique(file_analyses[last.file].content))
  => \A k \in 1..Len(last.errors) : last.errors[k].kind # "duplicate_symbol"

====
